---- MODULE Spec2Model ----
(***************************************************************************)
(* A model of the Blaaiz Python SDK: the file-upload orchestration of      *)
(* CustomerService (blaaiz/services/customer.py) and the webhook           *)
(* signature verification of WebhookService (blaaiz/services/webhook.py).  *)
(*                                                                         *)
(* Python values are tagged records.  A Python str is a sequence of        *)
(* chunks (TLA+ strings) whose concatenation is the text; where the code   *)
(* inspects characters the chunks are single characters.                   *)
(***************************************************************************)
EXTENDS Integers, Sequences, FiniteSets, TLC

VARIABLES
    \* ---- CustomerService.upload_file_complete, one call at a time
    pc,             \* position of the running call
    calls,          \* number of calls started so far
    customer_id,    \* arguments of the running call
    file_options,
    file_category,  \* locals of the running call
    presigned_url,
    file_id,
    file_buffer,
    log,            \* the requests issued and the responses received, in order
    raised,         \* the exception that reached the except clause, if any
    result,         \* how the running call ended
    \* ---- WebhookService.verify_signature / construct_event
    wpc,            \* position of the running webhook call
    wcalls,         \* number of webhook calls started so far
    wop,            \* which operation is running
    payload,        \* the caller's payload object, as it is now
    payload_in,     \* the payload as it was when the call was made
    signature,      \* the other arguments of the running call
    secret,
    verified,       \* what verify_signature answered inside the running call
    event,          \* local of construct_event
    wtrace,         \* the internal steps of the running call, in order
    clock,          \* the wall clock read by _get_current_timestamp
    wresult,        \* how the running webhook call ended
    \* ---- BlaaizClient and the callers of make_request
    client,          \* the instance: api_key, base_url, timeout, default_headers
    cpc,             \* position of each caller inside make_request
    cargs,           \* the arguments each caller passed
    request_headers, \* each caller's local request_headers
    sent,            \* the Request each caller handed to urlopen
    transport,       \* what urlopen did for each caller
    cresult,         \* how each caller's make_request ended
    \* ---- the services and the workflows of Blaaiz
    spc,             \* position of the running operation
    sop,             \* the operation and its arguments
    locals,          \* the workflow's local variables
    slog,            \* the make_request calls and their outcomes, in order
    sresult          \* how the running operation ended

uvars == <<pc, calls, customer_id, file_options, file_category, presigned_url,
           file_id, file_buffer, log, raised, result>>
wvars == <<wpc, wcalls, wop, payload, payload_in, signature, secret, verified, event,
           wtrace, clock, wresult>>
cvars == <<client, cpc, cargs, request_headers, sent, transport, cresult>>
svars == <<spc, sop, locals, slog, sresult>>
vars == <<uvars, wvars, cvars, svars>>

\* ------------------------------------------------------------------ bounds

\* The number of calls of upload_file_complete followed in one behaviour.
MaxCalls == 1
\* The number of webhook calls followed in one behaviour.
MaxWebhookCalls == 1
\* The number of clock ticks between two webhook steps.
MaxClock == 2

\* ----------------------------------------------------------- Python values

PyNone == [t |-> "none"]
PyStr(s) == [t |-> "str", s |-> s]
PyBytes(b) == [t |-> "bytes", b |-> b]
PyInt(n) == [t |-> "int", n |-> n]
PyBool(x) == [t |-> "bool", x |-> x]
PyDict(d) == [t |-> "dict", d |-> d]
PyList(l) == [t |-> "list", l |-> l]

\* Python's truth value of an object (what `not x` negates).
Truthy(x) ==
    CASE x.t = "none" -> FALSE
      [] x.t = "str" -> x.s # <<>>
      [] x.t = "bytes" -> x.b # <<>>
      [] x.t = "int" -> x.n # 0
      [] x.t = "bool" -> x.x
      [] x.t = "dict" -> DOMAIN x.d # {}
      [] x.t = "list" -> x.l # <<>>

\* dict.get(key): the value, or None when the key is missing.
DictGet(d, k) == IF k \in DOMAIN d.d THEN d.d[k] ELSE PyNone

\* {**a, **b}: the keys of both, b's value where both have the key.
DictMerge(a, b) ==
    [k \in DOMAIN a \cup DOMAIN b |-> IF k \in DOMAIN b THEN b[k] ELSE a[k]]

\* str.startswith(prefix)
StartsWith(s, p) == Len(s) >= Len(p) /\ SubSeq(s, 1, Len(p)) = p

\* `needle in text` for two strs
Contains(text, needle) ==
    \E i \in 1..(Len(text) - Len(needle) + 1) :
        SubSeq(text, i, i + Len(needle) - 1) = needle

\* ------------------------------------------------------------------ errors

ValueError(msg) == [kind |-> "ValueError", message |-> msg]
KeyError(key) == [kind |-> "KeyError", message |-> <<"'", key, "'">>]
TypeError(msg) == [kind |-> "TypeError", message |-> msg]
TimeoutError(msg) == [kind |-> "TimeoutError", message |-> msg]
JSONDecodeError(msg) == [kind |-> "JSONDecodeError", message |-> msg]
BinasciiError(msg) == [kind |-> "binascii.Error", message |-> msg]
URLError(reason) == [kind |-> "URLError", message |-> <<"<urlopen error ", reason, ">">>]
HTTPError(code) ==
    [kind |-> "HTTPError", message |-> <<"HTTP Error ", ToString(code), ": ", "reason">>]

BlaaizError(message, status, code) ==
    [kind |-> "BlaaizError", message |-> message, status |-> status, code |-> code]

\* BlaaizError.__str__
BlaaizErrorStr(e) ==
    IF Truthy(e.status) /\ Truthy(e.code)
    THEN <<"BlaaizError(", ToString(e.status.n), ", ">> \o e.code.s \o <<"): ">> \o e.message
    ELSE IF Truthy(e.status)
    THEN <<"BlaaizError(", ToString(e.status.n), "): ">> \o e.message
    ELSE <<"BlaaizError: ">> \o e.message

\* str(e) of an exception
StrOf(e) == IF e.kind = "BlaaizError" THEN BlaaizErrorStr(e) ELSE e.message

\* ----------------------------------------------------------------- strings

\* str.split(sep) for a non-empty separator: the pieces between its occurrences.
RECURSIVE Split(_, _)
Split(s, sep) ==
    IF \E i \in 1..(Len(s) - Len(sep) + 1) : SubSeq(s, i, i + Len(sep) - 1) = sep
    THEN LET i == CHOOSE j \in 1..(Len(s) - Len(sep) + 1) :
                      /\ SubSeq(s, j, j + Len(sep) - 1) = sep
                      /\ \A k \in 1..(j - 1) : SubSeq(s, k, k + Len(sep) - 1) # sep
         IN <<SubSeq(s, 1, i - 1)>> \o Split(SubSeq(s, i + Len(sep), Len(s)), sep)
    ELSE <<s>>

\* str.strip(chars): the characters of `chars` removed from both ends.
RECURSIVE Strip(_, _)
Strip(s, chars) ==
    IF s # <<>> /\ s[1] \in chars THEN Strip(Tail(s), chars)
    ELSE IF s # <<>> /\ s[Len(s)] \in chars THEN Strip(SubSeq(s, 1, Len(s) - 1), chars)
    ELSE s

\* str.replace(old, ""): every occurrence of `old` removed, left to right.
RECURSIVE RemoveAll(_, _)
RemoveAll(s, old) ==
    IF s = <<>> THEN <<>>
    ELSE IF StartsWith(s, old) THEN RemoveAll(SubSeq(s, Len(old) + 1, Len(s)), old)
    ELSE <<s[1]>> \o RemoveAll(Tail(s), old)

\* Characters outside ASCII that the inputs may hold (one chunk, one character).
NonAsciiChars == {"U+00E9"}
IsAscii(s) == \A i \in 1..Len(s) : s[i] \notin NonAsciiChars

\* ------------------------------------------------------------------ base64

B64Alphabet ==
    <<"A","B","C","D","E","F","G","H","I","J","K","L","M","N","O","P",
      "Q","R","S","T","U","V","W","X","Y","Z","a","b","c","d","e","f",
      "g","h","i","j","k","l","m","n","o","p","q","r","s","t","u","v",
      "w","x","y","z","0","1","2","3","4","5","6","7","8","9","+","/">>

\* table_a2b_base64: the 6-bit value of an alphabet character
B64Value(c) == (CHOOSE i \in 1..Len(B64Alphabet) : B64Alphabet[i] = c) - 1
IsB64Char(c) == \E i \in 1..Len(B64Alphabet) : B64Alphabet[i] = c

Ok(v) == [ok |-> TRUE, v |-> v]
Raise(e) == [ok |-> FALSE, e |-> e]

\* binascii.a2b_base64 in its default (non-strict) mode: characters outside the
\* alphabet are skipped, a completed pad sequence ends the decoding, and a
\* quad left open at the end of the input is an error.
RECURSIVE A2bBase64(_, _, _, _, _, _)
A2bBase64(s, i, quad_pos, leftchar, pads, out) ==
    IF i > Len(s)
    THEN IF quad_pos = 0 THEN Ok(out)
         ELSE IF quad_pos = 1
         THEN Raise(BinasciiError(<<"Invalid base64-encoded string: number of data characters cannot be 1 more than a multiple of 4">>))
         ELSE Raise(BinasciiError(<<"Incorrect padding">>))
    ELSE IF s[i] = "="
    THEN IF quad_pos >= 2 /\ quad_pos + pads + 1 >= 4 THEN Ok(out)
         ELSE A2bBase64(s, i + 1, quad_pos, leftchar,
                        IF quad_pos >= 2 THEN pads + 1 ELSE pads, out)
    ELSE IF ~IsB64Char(s[i]) THEN A2bBase64(s, i + 1, quad_pos, leftchar, pads, out)
    ELSE LET ch == B64Value(s[i]) IN
         CASE quad_pos = 0 -> A2bBase64(s, i + 1, 1, ch, 0, out)
           [] quad_pos = 1 ->
                A2bBase64(s, i + 1, 2, ch % 16, 0, Append(out, leftchar * 4 + (ch \div 16)))
           [] quad_pos = 2 ->
                A2bBase64(s, i + 1, 3, ch % 4, 0, Append(out, leftchar * 16 + (ch \div 4)))
           [] quad_pos = 3 ->
                A2bBase64(s, i + 1, 0, 0, 0, Append(out, leftchar * 64 + ch))

\* base64.b64decode(s) of a str: ASCII only, then a2b_base64.
B64Decode(s) ==
    IF ~IsAscii(s)
    THEN Raise(ValueError(<<"string argument should contain only ASCII characters">>))
    ELSE A2bBase64(s, 1, 0, 0, 0, <<>>)

\* base64.b64encode(b), as a str of single characters
RECURSIVE B64Encode(_)
B64Encode(b) ==
    IF b = <<>> THEN <<>>
    ELSE IF Len(b) = 1
    THEN <<B64Alphabet[(b[1] \div 4) + 1], B64Alphabet[(b[1] % 4) * 16 + 1], "=", "=">>
    ELSE IF Len(b) = 2
    THEN <<B64Alphabet[(b[1] \div 4) + 1],
           B64Alphabet[(b[1] % 4) * 16 + (b[2] \div 16) + 1],
           B64Alphabet[(b[2] % 16) * 4 + 1], "=">>
    ELSE <<B64Alphabet[(b[1] \div 4) + 1],
           B64Alphabet[(b[1] % 4) * 16 + (b[2] \div 16) + 1],
           B64Alphabet[(b[2] % 16) * 4 + (b[3] \div 64) + 1],
           B64Alphabet[(b[3] % 64) + 1]>> \o B64Encode(SubSeq(b, 4, Len(b)))

\* ------------------------------------------------------- content resolution

\* the literals the resolver compares against, character by character
DataScheme == <<"d","a","t","a",":">>
HttpScheme == <<"h","t","t","p",":","/","/">>
HttpsScheme == <<"h","t","t","p","s",":","/","/">>
FilenameParam == <<"f","i","l","e","n","a","m","e","=">>

\* mime_to_ext of _get_extension_from_content_type, as <<type, extension>> rows
MimeToExt ==
    <<<<<<"i","m","a","g","e","/","j","p","e","g">>,
        <<".","j","p","g">>>>,
      <<<<"i","m","a","g","e","/","j","p","g">>,
        <<".","j","p","g">>>>,
      <<<<"i","m","a","g","e","/","p","n","g">>,
        <<".","p","n","g">>>>,
      <<<<"i","m","a","g","e","/","g","i","f">>,
        <<".","g","i","f">>>>,
      <<<<"i","m","a","g","e","/","w","e","b","p">>,
        <<".","w","e","b","p">>>>,
      <<<<"i","m","a","g","e","/","b","m","p">>,
        <<".","b","m","p">>>>,
      <<<<"i","m","a","g","e","/","t","i","f","f">>,
        <<".","t","i","f","f">>>>,
      <<<<"a","p","p","l","i","c","a","t","i","o","n","/","p","d","f">>,
        <<".","p","d","f">>>>,
      <<<<"t","e","x","t","/","p","l","a","i","n">>,
        <<".","t","x","t">>>>,
      <<<<"a","p","p","l","i","c","a","t","i","o","n","/","m","s","w","o","r","d">>,
        <<".","d","o","c">>>>,
      <<<<"a","p","p","l","i","c","a","t","i","o","n","/","v","n","d",".","o","p","e","n","x","m","l","f","o","r","m","a","t","s","-","o","f","f","i","c","e","d","o","c","u","m","e","n","t",".","w","o","r","d","p","r","o","c","e","s","s","i","n","g","m","l",".","d","o","c","u","m","e","n","t">>,
        <<".","d","o","c","x">>>>>>

\* _get_extension_from_content_type: the extension of the type before any ";",
\* or None
GetExtensionFromContentType(content_type) ==
    LET key == Split(content_type, <<";">>)[1] IN
    IF \E i \in 1..Len(MimeToExt) : MimeToExt[i][1] = key
    THEN PyStr((CHOOSE row \in {MimeToExt[i] : i \in 1..Len(MimeToExt)} : row[1] = key)[2])
    ELSE PyNone

\* the last index of character c in p, 0 when there is none (str.rfind + 1)
RFind(p, c) ==
    IF \E i \in 1..Len(p) : p[i] = c
    THEN CHOOSE i \in 1..Len(p) : p[i] = c /\ \A j \in (i + 1)..Len(p) : p[j] # c
    ELSE 0

\* os.path.basename: what follows the last "/"
Basename(p) == SubSeq(p, RFind(p, "/") + 1, Len(p))

\* os.path.splitext(p)[1] is non-empty: the last dot follows the last "/" and
\* some character other than a dot stands between them
HasExtension(p) ==
    LET sepIndex == RFind(p, "/")
        dotIndex == RFind(p, ".")
    IN dotIndex > sepIndex /\ \E k \in (sepIndex + 1)..(dotIndex - 1) : p[k] # "."

\* What urlopen may do with the GET of a remote file: a response (status,
\* body, content-type and content-disposition headers) or an exception.
HttpResponse(status, body, content_type, content_disposition) ==
    [kind |-> "response", status |-> status, body |-> body,
     content_type |-> content_type, content_disposition |-> content_disposition]
HttpRaise(e) == [kind |-> "raise", e |-> e]

\* _download_file, given what urlopen did
DownloadFile(url, outcome) ==
    IF outcome.kind = "raise"
    THEN Raise(BlaaizError(<<"File download failed: ">> \o StrOf(outcome.e), PyNone, PyNone))
    ELSE IF outcome.status >= 300
    THEN Raise(BlaaizError(
            <<"File download failed: ">> \o
            StrOf(BlaaizError(<<"Failed to download file: HTTP ", ToString(outcome.status)>>,
                              PyNone, PyNone)),
            PyNone, PyNone))
    ELSE LET content_type == outcome.content_type
             content_disposition == outcome.content_disposition
             fromHeader ==
                 IF Truthy(content_disposition)
                    /\ Contains(content_disposition.s, FilenameParam)
                 THEN PyStr(Strip(Split(content_disposition.s, FilenameParam)[2],
                                  {"\"", "'"}))
                 ELSE PyNone
             named ==
                 IF ~Truthy(fromHeader)
                 THEN PyStr(Basename(Split(url, <<"?">>)[1]))
                 ELSE fromHeader
             ext ==
                 IF Truthy(named) /\ ~HasExtension(named.s) /\ Truthy(content_type)
                 THEN GetExtensionFromContentType(content_type.s)
                 ELSE PyNone
             filename == IF Truthy(ext) THEN PyStr(named.s \o ext.s) ELSE named
         IN Ok([data |-> PyBytes(outcome.body), content_type |-> content_type,
                filename |-> filename])

\* _process_file_content: the branch taken for a file content
ContentBranch(file_content) ==
    IF file_content.t = "bytes" THEN "bytes"
    ELSE IF file_content.t = "str"
    THEN IF StartsWith(file_content.s, DataScheme) THEN "data_url"
         ELSE IF StartsWith(file_content.s, HttpScheme)
                 \/ StartsWith(file_content.s, HttpsScheme) THEN "url"
         ELSE "base64"
    ELSE "other"

\* ResolveBytes that forgets the explicit filename and content type
ResolveBytesDroppingExplicit(file_content, content_type, filename) ==
    Ok([filename |-> PyNone, content_type |-> PyNone, data |-> file_content])

\* _process_file_content, lines 200-203: bytes pass through
ResolveBytes(file_content, content_type, filename) ==
    Ok(DictMerge([filename |-> filename, content_type |-> content_type],
                 [data |-> file_content]))

\* ResolveDataUrl that takes the content type from the whole header, scheme
\* marker included
ResolveDataUrlWholeHeader(file_content, content_type, filename) ==
    LET parts == Split(file_content.s, <<",">>) IN
    IF Len(parts) # 2 THEN Raise(ValueError(<<"Invalid data URL format">>))
    ELSE LET header == parts[1]
             data == parts[2]
             ctype == IF ~Truthy(content_type) /\ Contains(header, <<";">>)
                      THEN PyStr(Split(header, <<";">>)[1])
                      ELSE content_type
             decoded == B64Decode(data)
         IN IF decoded.ok
            THEN Ok([filename |-> filename, content_type |-> ctype,
                     data |-> PyBytes(decoded.v)])
            ELSE decoded

\* _process_file_content, lines 205-219: a data URL
ResolveDataUrl(file_content, content_type, filename) ==
    LET parts == Split(file_content.s, <<",">>) IN
    IF Len(parts) # 2 THEN Raise(ValueError(<<"Invalid data URL format">>))
    ELSE LET header == parts[1]
             data == parts[2]
             ctype == IF ~Truthy(content_type) /\ Contains(header, <<";">>)
                      THEN PyStr(Split(Split(header, <<":">>)[2], <<";">>)[1])
                      ELSE content_type
             decoded == B64Decode(data)
         IN IF decoded.ok
            THEN Ok([filename |-> filename, content_type |-> ctype,
                     data |-> PyBytes(decoded.v)])
            ELSE decoded

\* ResolveBase64 that decodes with the URL-safe alphabet's padding rule: the
\* padding characters are dropped before the text is decoded
ResolveBase64DroppingPadding(file_content, content_type, filename) ==
    LET decoded == B64Decode(SelectSeq(file_content.s, LAMBDA c : c # "=")) IN
    IF decoded.ok
    THEN Ok(DictMerge([filename |-> filename, content_type |-> content_type],
                      [data |-> PyBytes(decoded.v)]))
    ELSE decoded

\* _process_file_content, lines 224-226: plain base64 text
ResolveBase64(file_content, content_type, filename) ==
    LET decoded == B64Decode(file_content.s) IN
    IF decoded.ok
    THEN Ok(DictMerge([filename |-> filename, content_type |-> content_type],
                      [data |-> PyBytes(decoded.v)]))
    ELSE decoded

\* ProcessLocalContent that takes a content of another type for empty bytes
ProcessLocalContentAnyShape(file_content, content_type, filename) ==
    CASE ContentBranch(file_content) = "bytes" ->
            ResolveBytes(file_content, content_type, filename)
      [] ContentBranch(file_content) = "data_url" ->
            ResolveDataUrl(file_content, content_type, filename)
      [] ContentBranch(file_content) = "base64" ->
            ResolveBase64(file_content, content_type, filename)
      [] ContentBranch(file_content) = "other" ->
            ResolveBytes(PyBytes(<<>>), content_type, filename)

\* _process_file_content for every content but a remote URL
ProcessLocalContent(file_content, content_type, filename) ==
    CASE ContentBranch(file_content) = "bytes" ->
            ResolveBytes(file_content, content_type, filename)
      [] ContentBranch(file_content) = "data_url" ->
            ResolveDataUrl(file_content, content_type, filename)
      [] ContentBranch(file_content) = "base64" ->
            ResolveBase64(file_content, content_type, filename)
      [] ContentBranch(file_content) = "other" ->
            Raise(ValueError(<<"File content must be bytes or string">>))

\* _process_file_content for a remote URL, given what the download did:
\* result.update(download_result)
ProcessUrlContent(file_content, content_type, filename, outcome) ==
    LET result0 == [filename |-> filename, content_type |-> content_type]
        download_result == DownloadFile(file_content.s, outcome)
    IN IF download_result.ok THEN Ok(DictMerge(result0, download_result.v))
       ELSE download_result

\* UploadHeaders that falls back on a default content type when none is known
UploadHeadersDefaultType(file_data, content_type, filename) ==
    LET h0 == [k \in {"Content-Length"} |-> PyStr(<<ToString(Len(file_data.b))>>)]
        h1 == DictMerge(h0, [k \in {"Content-Type"} |->
                  IF Truthy(content_type) THEN content_type
                  ELSE PyStr(<<"a","p","p","l","i","c","a","t","i","o","n","/",
                               "o","c","t","e","t","-","s","t","r","e","a","m">>)])
    IN IF Truthy(filename)
       THEN DictMerge(h1, [k \in {"Content-Disposition"} |->
                PyStr(<<"a","t","t","a","c","h","m","e","n","t",";"," ",
                        "f","i","l","e","n","a","m","e","=","\"">> \o filename.s \o <<"\"">>)])
       ELSE h1

\* _upload_to_s3: the headers of the PUT
UploadHeaders(file_data, content_type, filename) ==
    LET h0 == [k \in {"Content-Length"} |-> PyStr(<<ToString(Len(file_data.b))>>)]
        h1 == IF Truthy(content_type)
              THEN DictMerge(h0, [k \in {"Content-Type"} |-> content_type])
              ELSE h0
    IN IF Truthy(filename)
       THEN DictMerge(h1, [k \in {"Content-Disposition"} |->
                PyStr(<<"a","t","t","a","c","h","m","e","n","t",";"," ",
                        "f","i","l","e","n","a","m","e","=","\"">> \o filename.s \o <<"\"">>)])
       ELSE h1

\* UploadToS3 with the status test of the download: only 300 and more fail
UploadToS3Below300(outcome) ==
    IF outcome.kind = "raise"
    THEN IF outcome.e.kind \in {"URLError", "HTTPError"}
         THEN Raise(BlaaizError(<<"S3 upload request failed: ">> \o StrOf(outcome.e),
                                PyNone, PyNone))
         ELSE Raise(BlaaizError(<<"S3 upload failed: ">> \o StrOf(outcome.e), PyNone, PyNone))
    ELSE IF outcome.status >= 300
    THEN Raise(BlaaizError(
            <<"S3 upload failed: ">> \o
            StrOf(BlaaizError(<<"S3 upload failed with status ", ToString(outcome.status)>>,
                              PyNone, PyNone)),
            PyNone, PyNone))
    ELSE Ok(PyNone)

\* _upload_to_s3, given what urlopen did with the PUT
UploadToS3(outcome) ==
    IF outcome.kind = "raise"
    THEN IF outcome.e.kind \in {"URLError", "HTTPError"}
         THEN Raise(BlaaizError(<<"S3 upload request failed: ">> \o StrOf(outcome.e),
                                PyNone, PyNone))
         ELSE Raise(BlaaizError(<<"S3 upload failed: ">> \o StrOf(outcome.e), PyNone, PyNone))
    ELSE IF outcome.status < 200 \/ outcome.status >= 300
    THEN Raise(BlaaizError(
            <<"S3 upload failed: ">> \o
            StrOf(BlaaizError(<<"S3 upload failed with status ", ToString(outcome.status)>>,
                              PyNone, PyNone)),
            PyNone, PyNone))
    ELSE Ok(PyNone)

\* ------------------------------------------------- upload_file_complete

\* x[key] for a str key: the value, or the exception Python raises
Subscript(x, key) ==
    CASE x.t = "dict" -> IF key \in DOMAIN x.d THEN Ok(x.d[key]) ELSE Raise(KeyError(key))
      [] x.t = "str" -> Raise(TypeError(<<"string indices must be integers, not 'str'">>))
      [] x.t = "list" ->
            Raise(TypeError(<<"list indices must be integers or slices, not str">>))
      [] OTHER -> Raise(TypeError(<<"object is not subscriptable">>))

FileCategories == {PyStr(<<"identity">>), PyStr(<<"proof_of_address">>),
                   PyStr(<<"liveness_check">>)}

\* ValidateUpload without the membership test of file_category
ValidateUploadAnyCategory(cid, opts) ==
    IF ~Truthy(cid) THEN Raise(ValueError(<<"Customer ID is required">>))
    ELSE IF ~Truthy(opts) THEN Raise(ValueError(<<"File options are required">>))
    ELSE IF ~Truthy(DictGet(opts, "file")) THEN Raise(ValueError(<<"File is required">>))
    ELSE IF ~Truthy(DictGet(opts, "file_category"))
    THEN Raise(ValueError(<<"file_category is required">>))
    ELSE Ok(PyNone)

\* the checks of upload_file_complete that precede its try block
ValidateUpload(cid, opts) ==
    IF ~Truthy(cid) THEN Raise(ValueError(<<"Customer ID is required">>))
    ELSE IF ~Truthy(opts) THEN Raise(ValueError(<<"File options are required">>))
    ELSE IF ~Truthy(DictGet(opts, "file")) THEN Raise(ValueError(<<"File is required">>))
    ELSE IF ~Truthy(DictGet(opts, "file_category"))
    THEN Raise(ValueError(<<"file_category is required">>))
    ELSE IF DictGet(opts, "file_category") \notin FileCategories
    THEN Raise(ValueError(
            <<"file_category must be one of: identity, proof_of_address, liveness_check">>))
    ELSE Ok(PyNone)

\* WrapUploadFailure as `except BlaaizError` would do it: other kinds escape
WrapOnlyBlaaizError(e) ==
    IF e.kind = "BlaaizError"
    THEN BlaaizError(<<"File upload failed: ">> \o StrOf(e), PyNone, PyNone)
    ELSE e

\* WrapUploadFailure that hands on the status and code of a BlaaizError
WrapKeepingStatusAndCode(e) ==
    IF e.kind = "BlaaizError"
    THEN BlaaizError(<<"File upload failed: ">> \o StrOf(e), e.status, e.code)
    ELSE BlaaizError(<<"File upload failed: ">> \o StrOf(e), PyNone, PyNone)

\* except Exception as e: raise BlaaizError(f"File upload failed: {str(e)}")
WrapUploadFailure(e) == BlaaizError(<<"File upload failed: ">> \o StrOf(e), PyNone, PyNone)

\* UploadResult with the merge the other way round: the association's keys win
UploadResultAssociationWins(file_association, fid, url) ==
    DictMerge([file_id |-> fid, presigned_url |-> url], file_association)

\* the value returned after the association:
\* {**file_association, "file_id": file_id, "presigned_url": presigned_url}
UploadResult(file_association, fid, url) ==
    DictMerge(file_association, [file_id |-> fid, presigned_url |-> url])

\* entries of the transport log
Request(step, req) == [ev |-> "request", step |-> step, req |-> req]
Response(step, outcome) == [ev |-> "response", step |-> step, outcome |-> outcome]

SlotRequest(cid, category) ==
    Request("slot", [method |-> "POST", endpoint |-> <<"/api/external/file/get-presigned-url">>,
                     data |-> [customer_id |-> cid, file_category |-> category]])
DownloadRequest(url) == Request("download", [method |-> "GET", url |-> url])
PutRequest(url, buffer) ==
    Request("put", [method |-> "PUT", url |-> url, data |-> buffer.data,
                    headers |-> UploadHeaders(buffer.data, buffer.content_type,
                                              buffer.filename)])
AssocRequest(cid, fid) ==
    Request("assoc", [method |-> "PUT",
                      endpoint |-> <<"/api/external/customer/">> \o cid.s \o <<"/files">>,
                      data |-> [id_file |-> fid]])

\* ---- the inputs and the transport behaviours followed

SampleBytes == <<104, 105>>
SampleUrl == <<"h","t","t","p","s",":","/","/","h","/","d","/","f","?","x","=","1">>
TextPlain == <<"t","e","x","t","/","p","l","a","i","n">>
ImagePng == <<"i","m","a","g","e","/","p","n","g">>

CustomerIds == {PyNone, PyStr(<<>>), PyStr(<<"c", "1">>)}

\* byte sequences of the lengths that exercise every padding of base64
ByteSamples == {SampleBytes, <<255>>, <<0, 16, 255>>, <<1, 2, 3, 250>>}
ApplicationPdf == <<"a","p","p","l","i","c","a","t","i","o","n","/","p","d","f">>
MimeSamples == {ImagePng, ApplicationPdf}
Base64Marker == <<";","b","a","s","e","6","4",",">>

\* "data:" + M + ";base64," + base64(B)
DataUrl(mime, bytes) == DataScheme \o mime \o Base64Marker \o B64Encode(bytes)

FileContents ==
    {PyNone, PyBytes(<<>>), PyStr(<<>>), PyInt(0), PyInt(5), PyList(<<PyInt(1)>>),
     PyStr(<<"a","G","k">>),
     PyStr(DataScheme \o ImagePng \o <<";","b","a","s","e","6","4">>),
     \* a data URL with two commas, and one whose payload is no base64
     PyStr(DataUrl(TextPlain, SampleBytes) \o <<",">> \o B64Encode(SampleBytes)),
     PyStr(DataUrl(TextPlain, <<>>) \o <<"a">>),
     PyStr(SampleUrl)}
    \cup {PyBytes(b) : b \in ByteSamples}
    \cup {PyStr(B64Encode(b)) : b \in ByteSamples}
    \cup {PyStr(DataUrl(m, SampleBytes)) : m \in MimeSamples}
    \cup {PyStr(DataUrl(ImagePng, <<0, 16, 255>>)), PyStr(DataUrl(ImagePng, <<>>))}

CategoryInputs == FileCategories \cup {PyNone, PyStr(<<>>), PyStr(<<"invalid">>)}
FilenameInputs == {PyNone, PyStr(<<"a",".","t","x","t">>)}
ContentTypeInputs == {PyNone, PyStr(TextPlain)}

FileOptionInputs ==
    {PyNone, PyDict(<<>>)}
    \cup {PyDict([file |-> f]) : f \in FileContents}
    \cup {PyDict([file |-> f, file_category |-> c, filename |-> n, content_type |-> t]) :
            f \in FileContents, c \in CategoryInputs,
            n \in FilenameInputs, t \in ContentTypeInputs}

SlotUrl == PyStr(<<"h","t","t","p","s",":","/","/","s","3","/","u">>)
SlotFileId == PyStr(<<"f", "1">>)
ApiResponse(data) == [data |-> data, status |-> PyInt(200), headers |-> PyDict(<<>>)]

\* what make_request may do with the slot request
SlotOutcomes ==
    {Ok(ApiResponse(PyDict([data |-> PyDict([url |-> SlotUrl, file_id |-> SlotFileId])]))),
     Ok(ApiResponse(PyDict([data |-> PyDict([url |-> SlotUrl])]))),
     Ok(ApiResponse(PyDict([message |-> PyStr(<<"ok">>)]))),
     Ok(ApiResponse(PyStr(<<"<html>">>))),
     Raise(BlaaizError(<<"Customer not found">>, PyInt(404), PyStr(<<"NOT_FOUND">>))),
     Raise(BlaaizError(<<"Request failed: ", "timed out">>, PyNone, PyStr(<<"REQUEST_ERROR">>)))}

\* what urlopen may do with the GET of a remote file
DownloadOutcomes ==
    {HttpResponse(200, SampleBytes, t, d) :
        t \in {PyNone, PyStr(ImagePng)},
        d \in {PyNone, PyStr(<<"a","t","t","a","c","h","m","e","n","t",";"," ","f","i","l","e","n","a","m","e","=","\"","r","\"">>)}}
    \cup {HttpResponse(304, <<>>, PyNone, PyNone),
          HttpResponse(299, SampleBytes, PyNone, PyNone),
          HttpResponse(199, SampleBytes, PyNone, PyNone),
          HttpRaise(HTTPError(404)), HttpRaise(URLError("timed out"))}

\* what urlopen may do with the PUT to the upload URL
PutOutcomes ==
    {HttpResponse(200, <<>>, PyNone, PyNone), HttpResponse(204, <<>>, PyNone, PyNone),
     HttpResponse(199, <<>>, PyNone, PyNone), HttpResponse(300, <<>>, PyNone, PyNone),
     HttpRaise(HTTPError(403)), HttpRaise(URLError("timed out")),
     HttpRaise(TimeoutError(<<"timed out">>))}

\* what make_request may do with the association request; an injected client
\* may answer with any dict, also one that has file_id or presigned_url keys
AssocOutcomes ==
    {Ok(ApiResponse(PyDict([message |-> PyStr(<<"ok">>)]))),
     Ok([data |-> PyDict(<<>>), file_id |-> PyStr(<<"f", "9">>),
         presigned_url |-> PyStr(<<"other">>)]),
     Raise(BlaaizError(<<"Server error">>, PyInt(500), PyStr(<<"SERVER_ERROR">>)))}

\* no outcome yet: the call is still running, or none was made
NoResult == [pending |-> TRUE]

UploadIdle ==
    /\ pc = "idle" /\ calls = 0
    /\ customer_id = PyNone /\ file_options = PyNone /\ file_category = PyNone
    /\ presigned_url = PyNone /\ file_id = PyNone /\ file_buffer = PyNone
    /\ log = <<>> /\ raised = PyNone /\ result = NoResult

\* the call fails inside the try block: the except clause wraps the exception
Fail(e) ==
    /\ raised' = e
    /\ result' = Raise(WrapUploadFailure(e))
    /\ pc' = "done"

\* IssuePut that does not wait for the PUT: the association request follows at once
IssuePutWithoutWaiting(url, buffer, seen) ==
    /\ file_buffer' = buffer
    /\ log' = Append(Append(seen, PutRequest(url.s, buffer)),
                     AssocRequest(customer_id, file_id'))
    /\ pc' = "put_wait"

\* step 3 begins: the PUT of the resolved content is issued
IssuePut(url, buffer, seen) ==
    /\ file_buffer' = buffer
    /\ log' = Append(seen, PutRequest(url.s, buffer))
    /\ pc' = "put_wait"

\* upload_file_complete is called: lines 142-170, up to the slot request
UploadFileComplete(cid, opts) ==
    /\ pc \in {"idle", "done"}
    /\ calls < MaxCalls
    /\ calls' = calls + 1
    /\ customer_id' = cid
    /\ file_options' = opts
    /\ presigned_url' = PyNone /\ file_id' = PyNone /\ file_buffer' = PyNone
    /\ raised' = PyNone
    /\ IF ValidateUpload(cid, opts).ok
       THEN /\ file_category' = DictGet(opts, "file_category")
            /\ log' = <<SlotRequest(cid, DictGet(opts, "file_category"))>>
            /\ result' = NoResult
            /\ pc' = "slot_wait"
       ELSE /\ file_category' = PyNone
            /\ log' = <<>>
            /\ result' = ValidateUpload(cid, opts)
            /\ pc' = "done"
    /\ UNCHANGED <<wvars, cvars, svars>>

\* the slot request returns: lines 172-184, up to the download or the PUT
SlotReturns(outcome) ==
    /\ pc = "slot_wait"
    /\ LET seen == Append(log, Response("slot", outcome))
           data1 == Subscript(PyDict(outcome.v), "data")
           data2 == Subscript(data1.v, "data")
           url == Subscript(data2.v, "url")
           fid == Subscript(data2.v, "file_id")
           content == DictGet(file_options, "file")
           local == ProcessLocalContent(content, DictGet(file_options, "content_type"),
                                        DictGet(file_options, "filename"))
       IN IF ~outcome.ok
          THEN Fail(outcome.e) /\ log' = seen /\ UNCHANGED <<presigned_url, file_id, file_buffer>>
          ELSE IF ~data1.ok
          THEN Fail(data1.e) /\ log' = seen /\ UNCHANGED <<presigned_url, file_id, file_buffer>>
          ELSE IF ~data2.ok
          THEN Fail(data2.e) /\ log' = seen /\ UNCHANGED <<presigned_url, file_id, file_buffer>>
          ELSE IF ~url.ok
          THEN Fail(url.e) /\ log' = seen /\ UNCHANGED <<presigned_url, file_id, file_buffer>>
          ELSE IF ~fid.ok
          THEN /\ Fail(fid.e) /\ log' = seen
               /\ presigned_url' = url.v
               /\ UNCHANGED <<file_id, file_buffer>>
          ELSE /\ presigned_url' = url.v
               /\ file_id' = fid.v
               /\ IF ContentBranch(content) = "url"
                  THEN /\ log' = Append(seen, DownloadRequest(content.s))
                       /\ pc' = "download_wait"
                       /\ UNCHANGED <<file_buffer, raised, result>>
                  ELSE IF local.ok
                  THEN IssuePut(url.v, local.v, seen) /\ UNCHANGED <<raised, result>>
                  ELSE Fail(local.e) /\ log' = seen /\ UNCHANGED file_buffer
    /\ UNCHANGED <<calls, customer_id, file_options, file_category>>
    /\ UNCHANGED <<wvars, cvars, svars>>

\* the download returns: the rest of _process_file_content, up to the PUT
DownloadReturns(outcome) ==
    /\ pc = "download_wait"
    /\ LET seen == Append(log, Response("download", outcome))
           resolved == ProcessUrlContent(DictGet(file_options, "file"),
                                         DictGet(file_options, "content_type"),
                                         DictGet(file_options, "filename"), outcome)
       IN IF resolved.ok
          THEN IssuePut(presigned_url, resolved.v, seen) /\ UNCHANGED <<raised, result>>
          ELSE Fail(resolved.e) /\ log' = seen /\ UNCHANGED file_buffer
    /\ UNCHANGED <<calls, customer_id, file_options, file_category, presigned_url, file_id>>
    /\ UNCHANGED <<wvars, cvars, svars>>

\* PutReturns that tries the PUT a second time when the first one failed
PutReturnsRetrying(outcome) ==
    /\ pc = "put_wait"
    /\ LET seen == Append(log, Response("put", outcome))
           uploaded == UploadToS3(outcome)
           puts == {i \in 1..Len(log) : log[i].ev = "request" /\ log[i].step = "put"}
       IN IF uploaded.ok
          THEN /\ log' = Append(seen, AssocRequest(customer_id, file_id))
               /\ pc' = "assoc_wait"
               /\ UNCHANGED <<raised, result>>
          ELSE IF Cardinality(puts) < 2
          THEN /\ log' = Append(seen, PutRequest(presigned_url.s, file_buffer))
               /\ UNCHANGED <<pc, raised, result>>
          ELSE Fail(uploaded.e) /\ log' = seen
    /\ UNCHANGED <<calls, customer_id, file_options, file_category, presigned_url, file_id,
                   file_buffer>>
    /\ UNCHANGED <<wvars, cvars, svars>>

\* the PUT returns: the rest of _upload_to_s3, up to the association request
PutReturns(outcome) ==
    /\ pc = "put_wait"
    /\ LET seen == Append(log, Response("put", outcome))
           uploaded == UploadToS3(outcome)
       IN IF uploaded.ok
          THEN /\ log' = Append(seen, AssocRequest(customer_id, file_id))
               /\ pc' = "assoc_wait"
               /\ UNCHANGED <<raised, result>>
          ELSE Fail(uploaded.e) /\ log' = seen
    /\ UNCHANGED <<calls, customer_id, file_options, file_category, presigned_url, file_id,
                   file_buffer>>
    /\ UNCHANGED <<wvars, cvars, svars>>

\* AssocReturns that returns the upload's result also when the association failed
AssocReturnsSwallowing(outcome) ==
    /\ pc = "assoc_wait"
    /\ log' = Append(log, Response("assoc", outcome))
    /\ result' = Ok(UploadResult(IF outcome.ok THEN outcome.v ELSE <<>>, file_id,
                                 presigned_url))
    /\ pc' = "done"
    /\ UNCHANGED <<calls, customer_id, file_options, file_category, presigned_url, file_id,
                   file_buffer, raised>>
    /\ UNCHANGED <<wvars, cvars, svars>>

\* the association request returns: line 191, or the except clause
AssocReturns(outcome) ==
    /\ pc = "assoc_wait"
    /\ log' = Append(log, Response("assoc", outcome))
    /\ IF outcome.ok
       THEN /\ result' = Ok(UploadResult(outcome.v, file_id, presigned_url))
            /\ pc' = "done"
            /\ UNCHANGED raised
       ELSE Fail(outcome.e)
    /\ UNCHANGED <<calls, customer_id, file_options, file_category, presigned_url, file_id,
                   file_buffer>>
    /\ UNCHANGED <<wvars, cvars, svars>>

UploadNext ==
    \/ \E cid \in CustomerIds, opts \in FileOptionInputs : UploadFileComplete(cid, opts)
    \/ \E outcome \in SlotOutcomes : SlotReturns(outcome)
    \/ \E outcome \in DownloadOutcomes : DownloadReturns(outcome)
    \/ \E outcome \in PutOutcomes : PutReturns(outcome)
    \/ \E outcome \in AssocOutcomes : AssocReturns(outcome)

\* -------------------------------------------------------------------- JSON
\* The JSON texts followed here use objects, arrays, strings without escapes,
\* non-negative integers, true, false, null and spaces between tokens.

DigitChars == <<"0","1","2","3","4","5","6","7","8","9">>
IsDigit(c) == \E i \in 1..10 : DigitChars[i] = c
DigitValue(c) == (CHOOSE i \in 1..10 : DigitChars[i] = c) - 1

\* the decimal digits of a natural number, as characters
RECURSIVE Digits(_)
Digits(n) == IF n < 10 THEN <<DigitChars[n + 1]>>
             ELSE Digits(n \div 10) \o <<DigitChars[(n % 10) + 1]>>

\* a dict that remembers the order in which its keys were inserted
EmptyDict == [t |-> "dict", d |-> <<>>, order |-> <<>>]

\* d[key] = value
SetItem(dict, key, value) ==
    [t |-> "dict",
     d |-> [k \in DOMAIN dict.d \cup {key} |-> IF k = key THEN value ELSE dict.d[k]],
     order |-> IF key \in DOMAIN dict.d THEN dict.order ELSE Append(dict.order, key)]

Parsed(v, next) == [ok |-> TRUE, v |-> v, next |-> next]
ParseFail == [ok |-> FALSE, e |-> JSONDecodeError(<<"Expecting value">>)]

\* the first position from i on that holds no space
RECURSIVE SkipWs(_, _)
SkipWs(s, i) == IF i <= Len(s) /\ s[i] = " " THEN SkipWs(s, i + 1) ELSE i

\* the first position from i on that holds no digit
RECURSIVE SkipDigits(_, _)
SkipDigits(s, i) == IF i <= Len(s) /\ IsDigit(s[i]) THEN SkipDigits(s, i + 1) ELSE i

RECURSIVE NumberValue(_)
NumberValue(ds) ==
    IF ds = <<>> THEN 0
    ELSE NumberValue(SubSeq(ds, 1, Len(ds) - 1)) * 10 + DigitValue(ds[Len(ds)])

\* a string starting at the quote at position i
ParseString(s, i) ==
    IF \E j \in (i + 1)..Len(s) : s[j] = "\""
    THEN LET j == CHOOSE k \in (i + 1)..Len(s) :
                      s[k] = "\"" /\ \A m \in (i + 1)..(k - 1) : s[m] # "\""
         IN IF \E m \in (i + 1)..(j - 1) : s[m] = "\\" THEN ParseFail
            ELSE Parsed(PyStr(SubSeq(s, i + 1, j - 1)), j + 1)
    ELSE ParseFail

RECURSIVE ParseValue(_, _)
RECURSIVE ParseMembers(_, _, _)
RECURSIVE ParseElements(_, _, _)

\* the members of an object from position i on, after `dict` was read; i
\* stands at a key
ParseMembers(s, i, dict) ==
    IF i > Len(s) \/ s[i] # "\"" THEN ParseFail
    ELSE LET key == ParseString(s, i) IN
         IF ~key.ok THEN ParseFail
         ELSE LET c == SkipWs(s, key.next) IN
              IF c > Len(s) \/ s[c] # ":" THEN ParseFail
              ELSE LET val == ParseValue(s, SkipWs(s, c + 1)) IN
                   IF ~val.ok THEN ParseFail
                   ELSE LET n == SkipWs(s, val.next)
                            read == SetItem(dict, key.v.s, val.v)
                        IN IF n > Len(s) THEN ParseFail
                           ELSE IF s[n] = "}" THEN Parsed(read, n + 1)
                           ELSE IF s[n] = "," THEN ParseMembers(s, SkipWs(s, n + 1), read)
                           ELSE ParseFail

\* the elements of an array from position i on, after `list` was read
ParseElements(s, i, list) ==
    LET val == ParseValue(s, i) IN
    IF ~val.ok THEN ParseFail
    ELSE LET n == SkipWs(s, val.next)
             read == Append(list, val.v)
         IN IF n > Len(s) THEN ParseFail
            ELSE IF s[n] = "]" THEN Parsed(PyList(read), n + 1)
            ELSE IF s[n] = "," THEN ParseElements(s, SkipWs(s, n + 1), read)
            ELSE ParseFail

\* the JSON value starting at position i
ParseValue(s, i) ==
    IF i > Len(s) THEN ParseFail
    ELSE IF s[i] = "{"
    THEN LET n == SkipWs(s, i + 1) IN
         IF n <= Len(s) /\ s[n] = "}" THEN Parsed(EmptyDict, n + 1)
         ELSE ParseMembers(s, n, EmptyDict)
    ELSE IF s[i] = "["
    THEN LET n == SkipWs(s, i + 1) IN
         IF n <= Len(s) /\ s[n] = "]" THEN Parsed(PyList(<<>>), n + 1)
         ELSE ParseElements(s, n, <<>>)
    ELSE IF s[i] = "\"" THEN ParseString(s, i)
    ELSE IF IsDigit(s[i])
    THEN LET n == SkipDigits(s, i) IN
         IF s[i] = "0" /\ n > i + 1 THEN Parsed(PyInt(0), i + 1)
         ELSE Parsed(PyInt(NumberValue(SubSeq(s, i, n - 1))), n)
    ELSE IF StartsWith(SubSeq(s, i, Len(s)), <<"t","r","u","e">>) THEN Parsed(PyBool(TRUE), i + 4)
    ELSE IF StartsWith(SubSeq(s, i, Len(s)), <<"f","a","l","s","e">>) THEN Parsed(PyBool(FALSE), i + 5)
    ELSE IF StartsWith(SubSeq(s, i, Len(s)), <<"n","u","l","l">>) THEN Parsed(PyNone, i + 4)
    ELSE ParseFail

\* json.loads(s): one value, spaces around it, and nothing else
JsonLoads(s) ==
    LET val == ParseValue(s, SkipWs(s, 1)) IN
    IF ~val.ok THEN Raise(val.e)
    ELSE IF SkipWs(s, val.next) <= Len(s) THEN Raise(JSONDecodeError(<<"Extra data">>))
    ELSE Ok(val.v)

\* json.dumps(v, separators=(",", ":")): keys in insertion order, no spaces
RECURSIVE JsonDumps(_)
RECURSIVE DumpMembers(_, _)
RECURSIVE DumpElements(_)
DumpMembers(dict, keys) ==
    IF keys = <<>> THEN <<>>
    ELSE <<"\"">> \o keys[1] \o <<"\"", ":">> \o JsonDumps(dict.d[keys[1]])
         \o (IF Len(keys) > 1 THEN <<",">> ELSE <<>>) \o DumpMembers(dict, Tail(keys))
DumpElements(list) ==
    IF list = <<>> THEN <<>>
    ELSE JsonDumps(list[1]) \o (IF Len(list) > 1 THEN <<",">> ELSE <<>>)
         \o DumpElements(Tail(list))
JsonDumps(v) ==
    CASE v.t = "dict" -> <<"{">> \o DumpMembers(v, v.order) \o <<"}">>
      [] v.t = "list" -> <<"[">> \o DumpElements(v.l) \o <<"]">>
      [] v.t = "str" -> <<"\"">> \o v.s \o <<"\"">>
      [] v.t = "int" -> Digits(v.n)
      [] v.t = "bool" -> IF v.x THEN <<"t","r","u","e">> ELSE <<"f","a","l","s","e">>
      [] v.t = "none" -> <<"n","u","l","l">>

\* ---------------------------------------------------------------- webhooks

HexChars == <<"0","1","2","3","4","5","6","7","8","9","a","b","c","d","e","f">>

\* the characters the secrets and payloads followed here are made of; a
\* character's code is its place in this list
CodedChars ==
    <<"{", "}", "[", "]", "\"", ":", ",", " ", "0", "1", "2", "3", "a", "b", "d", "e",
      "f", "i", "l", "m", "n", "p", "r", "s", "t", "u", "v", "x", "U+00E9">>
CharCode(c) == CHOOSE i \in 1..Len(CodedChars) : CodedChars[i] = c

\* two lowercase hexadecimal digits of a number below 256
Hex2(n) == <<HexChars[(n \div 16) + 1], HexChars[(n % 16) + 1]>>

RECURSIVE HexOf(_)
HexOf(s) == IF s = <<>> THEN <<>> ELSE Hex2(CharCode(s[1])) \o HexOf(Tail(s))

\* hmac.new(key, msg, hashlib.sha256).hexdigest(), idealised: a lowercase
\* hexadecimal text that differs for any two different (key, msg) pairs.  It is
\* the hexadecimal form of the key's length, the key and the message.
HmacSha256Hex(key, msg) == Hex2(Len(key)) \o HexOf(key) \o HexOf(msg)

\* hmac.compare_digest(a, b) of two strs: equality, and a TypeError when
\* either holds a character outside ASCII
CompareDigest(a, b) ==
    IF ~IsAscii(a) \/ ~IsAscii(b)
    THEN Raise(TypeError(<<"comparing strings with non-ASCII characters is not supported">>))
    ELSE Ok(PyBool(a = b))

Sha256Prefix == <<"s","h","a","2","5","6","=">>
VerifiedKey == <<"v","e","r","i","f","i","e","d">>
TimestampKey == <<"t","i","m","e","s","t","a","m","p">>

\* VerifySignature without the check of the secret: an empty key is a key
VerifySignatureAnySecret(p, sig, sec) ==
    IF ~Truthy(p)
    THEN Raise(ValueError(<<"Payload is required for signature verification">>))
    ELSE IF ~Truthy(sig)
    THEN Raise(ValueError(<<"Signature is required for signature verification">>))
    ELSE IF sec.t # "str"
    THEN Raise([kind |-> "AttributeError", message |-> <<"object has no attribute 'encode'">>])
    ELSE CompareDigest(RemoveAll(sig.s, Sha256Prefix),
                       HmacSha256Hex(sec.s, IF p.t = "dict" THEN JsonDumps(p) ELSE p.s))

\* verify_signature
VerifySignature(p, sig, sec) ==
    IF ~Truthy(p)
    THEN Raise(ValueError(<<"Payload is required for signature verification">>))
    ELSE IF ~Truthy(sig)
    THEN Raise(ValueError(<<"Signature is required for signature verification">>))
    ELSE IF ~Truthy(sec)
    THEN Raise(ValueError(<<"Webhook secret is required for signature verification">>))
    ELSE LET payload_string == IF p.t = "dict" THEN JsonDumps(p) ELSE p.s
             clean_signature == RemoveAll(sig.s, Sha256Prefix)
             expected_signature == HmacSha256Hex(sec.s, payload_string)
         IN CompareDigest(clean_signature, expected_signature)

\* _get_current_timestamp: the clock's reading, as a text ending in Z
CurrentTimestamp(now) == PyStr(<<"T", ToString(now), "Z">>)

\* StampEvent that keeps a verified or timestamp key the event already has
StampEventKeepingKeys(ev, now) ==
    IF ev.t = "dict"
    THEN LET v == IF VerifiedKey \in DOMAIN ev.d THEN ev
                  ELSE SetItem(ev, VerifiedKey, PyBool(TRUE))
         IN Ok(IF TimestampKey \in DOMAIN v.d THEN v
               ELSE SetItem(v, TimestampKey, CurrentTimestamp(now)))
    ELSE Raise(TypeError(<<"object does not support item assignment">>))

\* event["verified"] = True; event["timestamp"] = ...: the stamped event, or
\* the TypeError of an item assignment to something that is no dict
StampEvent(ev, now) ==
    IF ev.t = "dict"
    THEN Ok(SetItem(SetItem(ev, VerifiedKey, PyBool(TRUE)), TimestampKey,
                    CurrentTimestamp(now)))
    ELSE Raise(TypeError(<<"object does not support item assignment">>))

\* ---- the inputs followed

SecretTexts == {<<"s","1">>, <<"s","2">>, <<"t","1">>}
SecretInputs == {PyNone, PyStr(<<>>)} \cup {PyStr(k) : k \in SecretTexts}

\* payloads given as text: objects, other JSON values, and texts that are not JSON
ObjectTexts ==
    {<<"{","\"","a","\"",":","1","}">>,
     <<"{","\"","a","\"",":","2","}">>,
     <<"{","\"","a","\"",":"," ","1","}">>,
     <<"{","\"","a","\"",":","1",",","\"","a","\"",":","2","}">>,
     <<"{","\"","v","e","r","i","f","i","e","d","\"",":","0",",","\"","t","i","m","e","s","t","a","m","p","\"",":","\"","x","\"","}">>}
OtherJsonTexts ==
    {<<"[","1","]">>, <<"1">>, <<"\"","a","\"">>, <<"n","u","l","l">>}
BrokenTexts == {<<"{","\"","a","\"",":","1">>, <<"x">>}
PayloadTexts == ObjectTexts \cup OtherJsonTexts \cup BrokenTexts

KeyA == <<"a">>
KeyB == <<"b">>
\* payloads given as structured objects
PayloadDicts ==
    {SetItem(EmptyDict, KeyA, PyInt(1)),
     SetItem(SetItem(EmptyDict, KeyA, PyInt(1)), KeyB, PyInt(2)),
     SetItem(SetItem(EmptyDict, KeyB, PyInt(2)), KeyA, PyInt(1)),
     SetItem(SetItem(EmptyDict, VerifiedKey, PyBool(FALSE)), TimestampKey, PyStr(<<"x">>))}

Payloads == {PyStr(x) : x \in PayloadTexts} \cup PayloadDicts

\* the text the signer signs: the payload text, or its compact serialisation
Canonical(p) == IF p.t = "dict" THEN JsonDumps(p) ELSE p.s
\* hmac_sha256_hex(secret, payload), the signature the sender computes
Sign(p, sec) == HmacSha256Hex(sec.s, Canonical(p))

\* s with the character at one position replaced by a different one from chars
ReplaceOne(s, chars) ==
    {[s EXCEPT ![i] = c] : i \in 1..Len(s), c \in chars} \ {s}

BaseDict == SetItem(EmptyDict, KeyA, PyInt(1))
BasePayload == PyStr(<<"{","\"","a","\"",":","1","}">>)
BaseSecret == PyStr(<<"s","1">>)
SignatureReplacements == {"0", "f", "U+00E9"}
TextReplacements == {"2", "x", "U+00E9"}

\* signatures that hold the marker "sha256=" elsewhere than once in front of
\* the digest d, and one that holds it in front of another digest
MarkerVariants(d) ==
    {Sha256Prefix \o Sha256Prefix \o d,
     SubSeq(d, 1, 2) \o Sha256Prefix \o SubSeq(d, 3, Len(d)),
     d \o Sha256Prefix,
     Sha256Prefix \o <<"0", "0">> \o d,
     <<"S","H","A","2","5","6","=">> \o d}

\* <<payload, signature, secret>> triples
WebhookInputs ==
    \* empty and absent arguments, in every combination
    {<<p, sig, sec>> :
        p \in {PyNone, PyStr(<<>>), EmptyDict, BasePayload, BaseDict},
        sig \in {PyNone, PyStr(<<>>), PyStr(<<"a", "b">>), PyStr(Sign(BasePayload, BaseSecret))},
        sec \in SecretInputs}
    \* every payload signed with every secret, with and without the prefix
    \cup {<<p, PyStr(Sign(p, PyStr(k))), PyStr(k)>> : p \in Payloads, k \in SecretTexts}
    \cup {<<p, PyStr(Sha256Prefix \o Sign(p, PyStr(k))), PyStr(k)>> :
            p \in Payloads, k \in SecretTexts}
    \* one character of the signature, of the payload or of the secret replaced
    \cup {<<BasePayload, PyStr(g), BaseSecret>> :
            g \in ReplaceOne(Sign(BasePayload, BaseSecret), SignatureReplacements)}
    \cup {<<PyStr(q), PyStr(Sign(BasePayload, BaseSecret)), BaseSecret>> :
            q \in ReplaceOne(BasePayload.s, TextReplacements)}
    \cup {<<BasePayload, PyStr(Sign(BasePayload, BaseSecret)), PyStr(k)>> :
            k \in ReplaceOne(BaseSecret.s, TextReplacements)}
    \* the marker repeated, inside or after the digest, or before a wrong digest
    \cup {<<BasePayload, PyStr(g), BaseSecret>> :
            g \in MarkerVariants(Sign(BasePayload, BaseSecret))}

WebhookIdle ==
    /\ wpc = "idle" /\ wcalls = 0 /\ wop = "none"
    /\ payload = PyNone /\ payload_in = PyNone /\ signature = PyNone /\ secret = PyNone
    /\ verified = PyNone /\ event = PyNone
    /\ wtrace = <<>> /\ clock = 0 /\ wresult = NoResult

\* verify_signature is called and returns
VerifySignatureCall(p, sig, sec) ==
    /\ wpc \in {"idle", "done"}
    /\ wcalls < MaxWebhookCalls
    /\ wcalls' = wcalls + 1
    /\ wop' = "verify_signature"
    /\ payload' = p /\ payload_in' = p /\ signature' = sig /\ secret' = sec
    /\ verified' = PyNone /\ event' = PyNone
    /\ wtrace' = <<"verify">>
    /\ wresult' = VerifySignature(p, sig, sec)
    /\ wpc' = "done"
    /\ UNCHANGED clock
    /\ UNCHANGED <<uvars, cvars, svars>>

\* ConstructEventCall that goes on whatever verify_signature answered
ConstructEventCallUnchecked(p, sig, sec) ==
    /\ wpc \in {"idle", "done"}
    /\ wcalls < MaxWebhookCalls
    /\ wcalls' = wcalls + 1
    /\ wop' = "construct_event"
    /\ payload' = p /\ payload_in' = p /\ signature' = sig /\ secret' = sec
    /\ event' = PyNone
    /\ wtrace' = <<"verify">>
    /\ LET answer == VerifySignature(p, sig, sec) IN
       IF ~answer.ok
       THEN /\ verified' = PyNone
            /\ wresult' = answer
            /\ wpc' = "done"
       ELSE /\ verified' = answer.v
            /\ wresult' = NoResult
            /\ wpc' = "verified"
    /\ UNCHANGED clock
    /\ UNCHANGED <<uvars, cvars, svars>>

\* construct_event is called: lines 129-130, the verification
ConstructEventCall(p, sig, sec) ==
    /\ wpc \in {"idle", "done"}
    /\ wcalls < MaxWebhookCalls
    /\ wcalls' = wcalls + 1
    /\ wop' = "construct_event"
    /\ payload' = p /\ payload_in' = p /\ signature' = sig /\ secret' = sec
    /\ event' = PyNone
    /\ wtrace' = <<"verify">>
    /\ LET answer == VerifySignature(p, sig, sec) IN
       IF ~answer.ok
       THEN /\ verified' = PyNone
            /\ wresult' = answer
            /\ wpc' = "done"
       ELSE IF ~Truthy(answer.v)
       THEN /\ verified' = answer.v
            /\ wresult' = Raise(ValueError(<<"Invalid webhook signature">>))
            /\ wpc' = "done"
       ELSE /\ verified' = answer.v
            /\ wresult' = NoResult
            /\ wpc' = "verified"
    /\ UNCHANGED clock
    /\ UNCHANGED <<uvars, cvars, svars>>

\* construct_event, lines 133-136: the payload is parsed, or used as it is
ParsePayload ==
    /\ wpc = "verified"
    /\ IF payload.t = "str"
       THEN /\ wtrace' = Append(wtrace, "parse")
            /\ IF JsonLoads(payload.s).ok
               THEN /\ event' = JsonLoads(payload.s).v
                    /\ wpc' = "parsed"
                    /\ UNCHANGED wresult
               ELSE /\ wresult' =
                        Raise(ValueError(<<"Invalid webhook payload: unable to parse JSON">>))
                    /\ wpc' = "done"
                    /\ UNCHANGED event
       ELSE /\ event' = payload
            /\ wpc' = "parsed"
            /\ UNCHANGED <<wtrace, wresult>>
    /\ UNCHANGED <<wcalls, wop, payload, payload_in, signature, secret, verified, clock>>
    /\ UNCHANGED <<uvars, cvars, svars>>

\* construct_event, lines 139-142: the event is stamped and returned; an event
\* that is the caller's own object is stamped in place
StampAndReturn ==
    /\ wpc = "parsed"
    /\ wtrace' = Append(wtrace, "stamp")
    /\ IF StampEvent(event, clock).ok
       THEN /\ event' = StampEvent(event, clock).v
            /\ payload' = IF payload.t = "dict" THEN StampEvent(event, clock).v ELSE payload
            /\ wresult' = Ok(StampEvent(event, clock).v)
       ELSE /\ wresult' = StampEvent(event, clock)
            /\ UNCHANGED <<event, payload>>
    /\ wpc' = "done"
    /\ UNCHANGED <<wcalls, wop, payload_in, signature, secret, verified, clock>>
    /\ UNCHANGED <<uvars, cvars, svars>>

\* time passes
Tick ==
    /\ clock < MaxClock
    /\ clock' = clock + 1
    /\ UNCHANGED <<wpc, wcalls, wop, payload, payload_in, signature, secret, verified, event, wtrace,
                   wresult>>
    /\ UNCHANGED <<uvars, cvars, svars>>

WebhookNext ==
    \/ \E call \in WebhookInputs : VerifySignatureCall(call[1], call[2], call[3])
    \/ \E call \in WebhookInputs : ConstructEventCall(call[1], call[2], call[3])
    \/ ParsePayload
    \/ StampAndReturn
    \/ Tick

\* -------------------------------------------------------- BlaaizAPIClient

\* The number of callers that share the one client.
MaxCallers == 2
Callers == 1..MaxCallers

\* the default of __init__'s timeout parameter
DefaultTimeout == 30

\* str.rstrip(chars)
RECURSIVE RStrip(_, _)
RStrip(s, chars) ==
    IF s # <<>> /\ s[Len(s)] \in chars THEN RStrip(SubSeq(s, 1, Len(s) - 1), chars) ELSE s

\* BlaaizAPIClient.__init__: the instance, or the ValueError for a missing key
NewClient(api_key, base_url, timeout) ==
    IF ~Truthy(api_key) THEN Raise(ValueError(<<"API key is required">>))
    ELSE Ok([api_key |-> api_key,
             base_url |-> PyStr(RStrip(base_url.s, {"/"})),
             timeout |-> timeout,
             default_headers |->
                 [k \in {"x-blaaiz-api-key", "Accept", "Content-Type", "User-Agent"} |->
                     CASE k = "x-blaaiz-api-key" -> api_key
                       [] k = "Accept" -> PyStr(<<"application/json">>)
                       [] k = "Content-Type" -> PyStr(<<"application/json">>)
                       [] k = "User-Agent" -> PyStr(<<"Blaaiz-Python-SDK/1.0.0">>)]])

\* PrepareHeaders without the copy: the extra headers are merged into the instance's dict
PrepareHeadersInPlace(default_headers, headers) ==
    LET merged == IF Truthy(headers) THEN DictMerge(default_headers, headers.d)
                  ELSE default_headers
    IN [self |-> merged, local |-> merged]

\* make_request: request_headers is a copy of default_headers, updated with the
\* caller's headers; `self` is the instance's dict afterwards, `local` the request's
PrepareHeaders(default_headers, headers) ==
    [self |-> default_headers,
     local |-> IF Truthy(headers) THEN DictMerge(default_headers, headers.d)
               ELSE default_headers]

\* make_request: the Request handed to urlopen. The body is kept as the value that
\* was encoded: a str as it is, anything else through json.dumps.
BuildRequest(self, args, headers) ==
    LET upper == CASE args.method = "get" -> "GET"
                   [] args.method = "post" -> "POST"
                   [] OTHER -> args.method
    IN [url |-> self.base_url.s \o args.endpoint,
        data |-> IF Truthy(args.data) /\ upper # "GET"
                 THEN (IF args.data.t = "str" THEN [encoded |-> args.data]
                       ELSE [encoded |-> [json_dumps |-> args.data]])
                 ELSE PyNone,
        headers |-> headers,
        method |-> upper,
        timeout |-> self.timeout]

\* what urlopen can do: a response, an HTTPError carrying a body, another exception.
\* A body is a sequence of bytes, an ASCII byte written as its character; "0xFF" is
\* a byte that is valid nowhere in UTF-8.
UrlopenResponse(status, body) ==
    [kind |-> "response", status |-> status, body |-> body, headers |-> PyDict(<<>>)]
UrlopenHTTPError(code, body) == [kind |-> "http_error", code |-> code, body |-> body]

\* bytes.decode('utf-8')
Utf8Decode(body) ==
    IF \E i \in 1..Len(body) : body[i] = "0xFF"
    THEN Raise([kind |-> "UnicodeDecodeError",
                message |-> <<"'utf-8' codec can't decode byte 0xff">>])
    ELSE Ok(body)

\* make_request, the handler of HTTPError: an exception raised while the body is read
\* and decoded is caught only when it is a JSONDecodeError or an AttributeError.
\* (The bodies followed here carry str messages and codes.)
HandleHTTPError(o) ==
    LET text == Utf8Decode(o.body)
        Get(d, k, default) == IF k \in DOMAIN d.d THEN d.d[k] ELSE default
        generic == Raise(BlaaizError(<<"HTTP ", ToString(o.code), " error">>,
                                     PyInt(o.code), PyStr(<<"HTTP_ERROR">>)))
    IN IF ~text.ok THEN Raise(text.e)
       ELSE LET error_data == JsonLoads(text.v) IN
            IF ~error_data.ok THEN generic
            ELSE IF error_data.v.t # "dict" THEN generic
            ELSE Raise(BlaaizError(
                     Get(error_data.v, <<"m","e","s","s","a","g","e">>,
                               PyStr(<<"API request failed">>)).s,
                     PyInt(o.code),
                     Get(error_data.v, <<"c","o","d","e">>, PyStr(<<"HTTP_ERROR">>))))

\* make_request from urlopen on: what the caller gets for what urlopen did
HandleOutcome(o) ==
    IF o.kind = "response"
    THEN LET text == Utf8Decode(o.body) IN
         IF ~text.ok
         THEN Raise(BlaaizError(<<"Unexpected error: ">> \o StrOf(text.e), PyNone,
                                PyStr(<<"UNEXPECTED_ERROR">>)))
         ELSE LET parsed == JsonLoads(text.v) IN
              Ok([data |-> IF parsed.ok THEN parsed.v ELSE PyStr(text.v),
                  status |-> PyInt(o.status),
                  headers |-> o.headers])
    ELSE IF o.kind = "http_error" THEN HandleHTTPError(o)
    ELSE IF o.e.kind = "URLError"
    THEN Raise(BlaaizError(<<"Request failed: ">> \o StrOf(o.e), PyNone,
                           PyStr(<<"REQUEST_ERROR">>)))
    ELSE Raise(BlaaizError(<<"Unexpected error: ">> \o StrOf(o.e), PyNone,
                           PyStr(<<"UNEXPECTED_ERROR">>)))

\* ---- inputs

\* the client followed here, as its construction leaves it
Construction ==
    NewClient(PyStr(<<"k">>), PyStr(<<"https:", "/", "/", "api-dev.blaaiz.com", "/">>),
              PyInt(DefaultTimeout)).v

\* the arguments of make_request
ClientArgs ==
    [method : {"POST", "get"},
     endpoint : {<<"/api/external/wallet">>},
     data : {PyNone, PyDict([a |-> PyInt(1)]), PyStr(<<"raw">>)},
     headers : {PyNone, PyDict([k \in {"X-Trace"} |-> PyStr(<<"t1">>)]),
                PyDict([k \in {"Content-Type"} |-> PyStr(<<"text/plain">>)])}]

\* what urlopen may do with the request
UrlopenOutcomes ==
    LET MessageAndCode ==
            <<"{","\"","m","e","s","s","a","g","e","\"",":","\"","b","a","d","\"",",",
              "\"","c","o","d","e","\"",":","\"","E","1","\"","}">>
        ObjectBody == <<"{","\"","a","\"",":","1","}">>
        ListBody == <<"[","1","]">>
        HtmlBody == <<"<","h","t","m","l",">">>
    IN {UrlopenResponse(200, ObjectBody), UrlopenResponse(200, HtmlBody),
        UrlopenResponse(200, <<"0xFF">>), UrlopenResponse(204, <<>>),
        UrlopenHTTPError(400, MessageAndCode), UrlopenHTTPError(404, ObjectBody),
        UrlopenHTTPError(400, ListBody), UrlopenHTTPError(500, HtmlBody),
        UrlopenHTTPError(502, <<"0xFF">>),
        HttpRaise(URLError("timed out")), HttpRaise(TimeoutError(<<"timed out">>))}

\* ---- actions

ClientIdle ==
    /\ client = Construction
    /\ cpc = [t \in Callers |-> "idle"]
    /\ cargs = [t \in Callers |-> PyNone]
    /\ request_headers = [t \in Callers |-> PyNone]
    /\ sent = [t \in Callers |-> PyNone]
    /\ transport = [t \in Callers |-> PyNone]
    /\ cresult = [t \in Callers |-> NoResult]

\* a caller enters make_request and prepares the headers of its request
MakeRequestCall(t, args) ==
    /\ cpc[t] = "idle"
    /\ LET prepared == PrepareHeaders(client.default_headers, args.headers) IN
        /\ client' = [client EXCEPT !.default_headers = prepared.self]
        /\ request_headers' = [request_headers EXCEPT ![t] = prepared.local]
    /\ cargs' = [cargs EXCEPT ![t] = args]
    /\ cpc' = [cpc EXCEPT ![t] = "prepared"]
    /\ UNCHANGED <<sent, transport, cresult>>
    /\ UNCHANGED <<uvars, wvars, svars>>

\* the caller builds the Request from the instance and its locals and calls urlopen
MakeRequestSend(t) ==
    /\ cpc[t] = "prepared"
    /\ sent' = [sent EXCEPT ![t] = BuildRequest(client, cargs[t], request_headers[t])]
    /\ cpc' = [cpc EXCEPT ![t] = "waiting"]
    /\ UNCHANGED <<client, cargs, request_headers, transport, cresult>>
    /\ UNCHANGED <<uvars, wvars, svars>>

\* urlopen answers or raises, and make_request returns or raises
MakeRequestReturns(t, o) ==
    /\ cpc[t] = "waiting"
    /\ transport' = [transport EXCEPT ![t] = o]
    /\ cresult' = [cresult EXCEPT ![t] = HandleOutcome(o)]
    /\ cpc' = [cpc EXCEPT ![t] = "done"]
    /\ UNCHANGED <<client, cargs, request_headers, sent>>
    /\ UNCHANGED <<uvars, wvars, svars>>

\* one caller, every argument shape and every transport behaviour
ClientNext ==
    \/ \E args \in ClientArgs : MakeRequestCall(1, args)
    \/ MakeRequestSend(1)
    \/ \E o \in UrlopenOutcomes : MakeRequestReturns(1, o)

\* the callers run make_request on the shared client, their steps interleaved
ConcurrentNext ==
    \/ \E t \in Callers, args \in {a \in ClientArgs : a.method = "POST" /\ a.data = PyNone} :
           MakeRequestCall(t, args)
    \/ \E t \in Callers : MakeRequestSend(t)
    \/ \E t \in Callers, o \in {UrlopenResponse(204, <<>>), HttpRaise(URLError("timed out"))} :
           MakeRequestReturns(t, o)

\* ----------------------------------------------------- the services

\* One row per operation: the HTTP method, the path, the label of the id it takes
\* ("" when it takes none), the fields required in every case, in the order the
\* code checks them, and the fields required when another field has a given value.
Always(method, path, required) ==
    [method |-> method, path |-> path, label |-> "", required |-> required, when |-> <<>>]
ById(method, path, label) ==
    [method |-> method, path |-> path, label |-> label, required |-> <<>>, when |-> <<>>]

CustomerOps ==
    [op \in {"customers.create", "customers.get", "customers.update"} |->
        CASE op = "customers.create" ->
                [Always("POST", "/api/external/customer",
                        <<"first_name", "last_name", "type", "email", "country",
                          "id_type", "id_number">>)
                 EXCEPT !.when =
                    <<[key |-> "type", is |-> "business", fields |-> <<"business_name">>,
                       suffix |-> " is required when type is business"]>>]
          [] op = "customers.get" -> ById("GET", "/api/external/customer/", "Customer ID")
          [] op = "customers.update" -> ById("PUT", "/api/external/customer/", "Customer ID")]

PayoutOps ==
    [op \in {"payouts.initiate"} |->
        [Always("POST", "/api/external/payout",
                <<"wallet_id", "method", "from_amount", "from_currency_id",
                  "to_currency_id">>)
         EXCEPT !.when =
            <<[key |-> "method", is |-> "bank_transfer", fields |-> <<"account_number">>,
               suffix |-> " is required for bank_transfer method"],
              [key |-> "method", is |-> "interac",
               fields |-> <<"email", "interac_first_name", "interac_last_name">>,
               suffix |-> " is required for interac method"]>>]]

FeesOps ==
    [op \in {"fees.get_breakdown"} |->
        Always("POST", "/api/external/fees/breakdown",
               <<"from_currency_id", "to_currency_id", "from_amount">>)]

FileOps ==
    [op \in {"files.get_presigned_url"} |->
        Always("POST", "/api/external/file/get-presigned-url",
               <<"customer_id", "file_category">>)]

CollectionOps ==
    [op \in {"collections.initiate"} |->
        Always("POST", "/api/external/collection", <<"method", "amount", "wallet_id">>)]

VirtualBankAccountOps ==
    [op \in {"virtual_bank_accounts.create"} |->
        Always("POST", "/api/external/virtual-bank-account", <<"wallet_id">>)]

WebhookOps ==
    [op \in {"webhooks.register", "webhooks.replay"} |->
        IF op = "webhooks.register"
        THEN Always("POST", "/api/external/webhook", <<"collection_url", "payout_url">>)
        ELSE Always("POST", "/api/external/webhook/replay", <<"transaction_id">>)]

WalletOps == [op \in {"wallets.get"} |-> ById("GET", "/api/external/wallet/", "Wallet ID")]

TransactionOps ==
    [op \in {"transactions.get"} |->
        ById("GET", "/api/external/transaction/", "Transaction ID")]

Operations ==
    CustomerOps @@ PayoutOps @@ FeesOps @@ FileOps @@ CollectionOps @@
    VirtualBankAccountOps @@ WebhookOps @@ WalletOps @@ TransactionOps

\* the fields the operation requires of this data, each with the end of its message,
\* in the order the code checks them
RECURSIVE Required(_, _, _)
Required(op, data, n) ==
    IF n = 0
    THEN [i \in 1..Len(Operations[op].required) |->
             [field |-> Operations[op].required[i], suffix |-> " is required"]]
    ELSE LET rule == Operations[op].when[n] IN
         Required(op, data, n - 1) \o
         (IF DictGet(data, rule.key) = PyStr(<<rule.is>>)
          THEN [i \in 1..Len(rule.fields) |->
                   [field |-> rule.fields[i], suffix |-> rule.suffix]]
          ELSE <<>>)

\* `field not in data or not data[field]`
Missing(data, field) == field \notin DOMAIN data.d \/ ~Truthy(data.d[field])

\* Validate that takes a field for given as soon as its key is there
ValidatePresenceOnly(op, id, data) ==
    IF Operations[op].label # ""
    THEN (IF ~Truthy(id) THEN Raise(ValueError(<<Operations[op].label, " is required">>))
          ELSE Ok(PyNone))
    ELSE LET req == Required(op, data, Len(Operations[op].when))
             missing == {i \in 1..Len(req) : req[i].field \notin DOMAIN data.d}
         IN IF missing = {} THEN Ok(PyNone)
            ELSE LET first == CHOOSE i \in missing : \A j \in missing : i <= j
                 IN Raise(ValueError(<<req[first].field, req[first].suffix>>))

\* the checks an operation makes before it calls make_request
Validate(op, id, data) ==
    IF Operations[op].label # ""
    THEN (IF ~Truthy(id) THEN Raise(ValueError(<<Operations[op].label, " is required">>))
          ELSE Ok(PyNone))
    ELSE LET req == Required(op, data, Len(Operations[op].when))
             missing == {i \in 1..Len(req) : Missing(data, req[i].field)}
         IN IF missing = {} THEN Ok(PyNone)
            ELSE LET first == CHOOSE i \in missing : \A j \in missing : i <= j
                 IN Raise(ValueError(<<req[first].field, req[first].suffix>>))

\* the arguments of the operation's make_request
ServiceRequest(op, id, data) ==
    Request(op, [method |-> Operations[op].method,
                 endpoint |-> IF Operations[op].label # ""
                              THEN <<Operations[op].path>> \o id.s
                              ELSE <<Operations[op].path>>,
                 data |-> data])

\* a service's method is entered
Call(op, id, data) == [ev |-> "call", step |-> op, id |-> id, data |-> data]

\* ---------------------------------------------------- the workflows of Blaaiz

Stages(workflow) ==
    IF workflow = "create_complete_payout"
    THEN <<"customers.create", "fees.get_breakdown", "payouts.initiate">>
    ELSE <<"customers.create", "virtual_bank_accounts.create", "collections.initiate">>

\* the key of the workflow's own data in its configuration
MainKey(workflow) ==
    IF workflow = "create_complete_payout" THEN "payout_data" ELSE "collection_data"

\* NeedsCustomer that looks at customer_data alone
NeedsCustomerWheneverSupplied(id, customer_data) == Truthy(customer_data)

\* `if not customer_id and customer_data`
NeedsCustomer(id, customer_data) == ~Truthy(id) /\ Truthy(customer_data)

\* AccountName that never looks at customer_data
AccountNameDefault(customer_data) == Ok(PyStr(<<"Customer Account">>))

\* create_complete_collection: the name of the virtual account (the names followed
\* here are strs)
AccountName(customer_data) ==
    IF ~Truthy(customer_data) THEN Ok(PyStr(<<"Customer Account">>))
    ELSE LET first == Subscript(customer_data, "first_name")
             last == Subscript(customer_data, "last_name")
         IN IF ~first.ok THEN first
            ELSE IF ~last.ok THEN last
            ELSE Ok(PyStr(first.v.s \o <<" ">> \o last.v.s))

\* a dict built from subscripts of `source`, or the KeyError of the first key missing
Picked(source, keys) ==
    LET missing == {i \in 1..Len(keys) : keys[i] \notin DOMAIN source.d} IN
    IF missing = {} THEN Ok(PyDict([k \in {keys[i] : i \in 1..Len(keys)} |-> source.d[k]]))
    ELSE Raise(KeyError(keys[CHOOSE i \in missing : \A j \in missing : i <= j]))

Skip == [skip |-> TRUE]

\* what the workflow passes to the service of a stage: Skip when the stage is left
\* out, the exception when building the argument fails
StageArgs(cfg, l, stage) ==
    LET main == DictGet(cfg.config, MainKey(cfg.workflow))
        customer_data == DictGet(cfg.config, "customer_data")
        create_vba == IF "create_vba" \in DOMAIN cfg.config.d THEN cfg.config.d["create_vba"]
                      ELSE PyBool(FALSE)
    IN CASE stage = "customers.create" ->
                IF NeedsCustomer(l.customer_id, customer_data) THEN Ok(customer_data) ELSE Skip
         [] stage = "fees.get_breakdown" ->
                Picked(main, <<"from_currency_id", "to_currency_id", "from_amount">>)
         [] stage = "virtual_bank_accounts.create" ->
                IF ~Truthy(create_vba) THEN Skip
                ELSE LET account_name == AccountName(customer_data)
                         wallet == Subscript(main, "wallet_id")
                     IN IF ~account_name.ok THEN account_name
                        ELSE IF ~wallet.ok THEN wallet
                        ELSE Ok(PyDict([wallet_id |-> wallet.v,
                                        account_name |-> account_name.v]))
         [] OTHER -> Ok(PyDict(DictMerge(main.d, [customer_id |-> l.customer_id])))

\* what the workflow keeps of the response of a stage
Bind(l, stage, response) ==
    CASE stage = "customers.create" ->
            LET inner == Subscript(response.data, "data")
                id == IF inner.ok THEN Subscript(inner.v, "id") ELSE inner
            IN IF id.ok THEN Ok([l EXCEPT !.customer_id = id.v]) ELSE id
      [] stage = "fees.get_breakdown" -> Ok([l EXCEPT !.fees = response.data])
      [] stage = "virtual_bank_accounts.create" -> Ok([l EXCEPT !.vba_data = response.data])
      [] OTHER -> Ok([l EXCEPT !.final = response.data])

\* the dict a workflow returns
WorkflowResult(workflow, l) ==
    IF workflow = "create_complete_payout"
    THEN [customer_id |-> l.customer_id, payout |-> l.final, fees |-> l.fees]
    ELSE [customer_id |-> l.customer_id, collection |-> l.final,
          virtual_account |-> l.vba_data]

\* Wrap that makes a fresh error of every failure
WrapDroppingStatusAndCode(workflow, e) ==
    BlaaizError(<<IF workflow = "create_complete_payout" THEN "Complete payout failed: "
                  ELSE "Complete collection failed: ">> \o
                (IF e.kind = "BlaaizError" THEN e.message ELSE StrOf(e)), PyNone, PyNone)

\* the except clause of a workflow
Wrap(workflow, e) ==
    LET prefix == IF workflow = "create_complete_payout" THEN "Complete payout failed: "
                  ELSE "Complete collection failed: "
    IN IF e.kind = "BlaaizError" THEN BlaaizError(<<prefix>> \o e.message, e.status, e.code)
       ELSE BlaaizError(<<prefix>> \o StrOf(e), PyNone, PyNone)

\* The workflow runs from stage i up to its next make_request: stages left out are
\* passed over; a failure to build an argument, or of a service's validation, ends
\* it; after the last stage it returns.
RECURSIVE Advance(_, _, _)
Advance(cfg, l, i) ==
    IF i > Len(Stages(cfg.workflow))
    THEN [kind |-> "return", entries |-> <<>>, l |-> l]
    ELSE LET stage == Stages(cfg.workflow)[i]
             args == StageArgs(cfg, l, stage)
         IN IF args = Skip THEN Advance(cfg, l, i + 1)
            ELSE IF ~args.ok THEN [kind |-> "raise", entries |-> <<>>, l |-> l, e |-> args.e]
            ELSE IF ~Validate(stage, PyNone, args.v).ok
            THEN [kind |-> "raise", entries |-> <<Call(stage, PyNone, args.v)>>, l |-> l,
                  e |-> Validate(stage, PyNone, args.v).e]
            ELSE [kind |-> "request", l |-> [l EXCEPT !.stage = i],
                  entries |-> <<Call(stage, PyNone, args.v),
                                ServiceRequest(stage, PyNone, args.v)>>]

\* ---- inputs

EmptyValues == {PyNone, PyStr(<<>>), PyInt(0)}
SampleId == PyStr(<<"id-1">>)

\* data that passes the operation's checks
ValidData(op) ==
    PyDict([f \in {Operations[op].required[i] : i \in 1..Len(Operations[op].required)} |->
               PyStr(<<f, "-value">>)])

With(data, field, value) == PyDict(DictMerge(data.d, [k \in {field} |-> value]))
Without(data, field) == PyDict([k \in DOMAIN data.d \ {field} |-> data.d[k]])

\* the calls of the single operations
ServiceInputs ==
    LET DataOps == {op \in DOMAIN Operations : Operations[op].label = ""}
        Fields(op) == DOMAIN ValidData(op).d
        business == With(ValidData("customers.create"), "type", PyStr(<<"business">>))
        bank == With(ValidData("payouts.initiate"), "method", PyStr(<<"bank_transfer">>))
        interac == With(ValidData("payouts.initiate"), "method", PyStr(<<"interac">>))
        full == With(With(With(interac, "email", PyStr(<<"e">>)),
                          "interac_first_name", PyStr(<<"f">>)),
                     "interac_last_name", PyStr(<<"l">>))
        Conditional(op) ==
            CASE op = "customers.create" ->
                    {business, With(business, "business_name", PyStr(<<"Acme">>)),
                     With(business, "business_name", PyStr(<<>>))}
              [] op = "payouts.initiate" ->
                    {bank, With(bank, "account_number", PyStr(<<"1">>)), interac, full,
                     Without(full, "interac_last_name"), With(full, "email", PyNone)}
              [] OTHER -> {}
    IN UNION {{[op |-> op, id |-> PyNone, data |-> d] :
                 d \in {ValidData(op)} \cup Conditional(op)
                       \cup {Without(ValidData(op), f) : f \in Fields(op)}
                       \cup {With(ValidData(op), f, v) : f \in Fields(op), v \in EmptyValues}} :
              op \in DataOps}
       \cup {[op |-> op, id |-> id,
              data |-> IF op = "customers.update" THEN PyDict([email |-> PyStr(<<"e">>)])
                       ELSE PyNone] :
                op \in DOMAIN Operations \ DataOps, id \in {PyNone, PyStr(<<>>), SampleId}}

\* the configurations of the workflows
WorkflowInputs ==
    LET customer == ValidData("customers.create")
        CustomerData == {PyNone, PyDict(<<>>), customer, Without(customer, "email"),
                         Without(customer, "first_name")}
        MainData(op) ==
            {PyNone, PyDict(<<>>), ValidData(op), With(ValidData(op), "customer_id", SampleId),
             Without(ValidData(op), "wallet_id"),
             Without(With(ValidData(op), "customer_id", SampleId),
                     Operations[op].required[3])}
        Config(pairs) == PyDict([k \in {p[1] : p \in {q \in pairs : q[2] # PyNone}} |->
                                    (CHOOSE p \in pairs : p[1] = k)[2]])
    IN {[workflow |-> "create_complete_payout",
         config |-> Config({<<"customer_data", c>>, <<"payout_data", d>>})] :
            c \in CustomerData, d \in MainData("payouts.initiate")}
       \cup
       {[workflow |-> "create_complete_collection",
         config |-> Config({<<"customer_data", c>>, <<"collection_data", d>>,
                            <<"create_vba", v>>})] :
            c \in CustomerData, d \in MainData("collections.initiate"),
            v \in {PyNone, PyBool(TRUE), PyBool(FALSE)}}

\* what make_request may do for a service
ServiceOutcomes ==
    {Ok(ApiResponse(PyDict([data |-> PyDict([id |-> PyStr(<<"c9">>)])]))),
     Ok(ApiResponse(PyDict([message |-> PyStr(<<"ok">>)]))),
     Ok(ApiResponse(PyStr(<<"<html>">>))),
     Raise(BlaaizError(<<"Not found">>, PyInt(404), PyStr(<<"NOT_FOUND">>))),
     Raise(BlaaizError(<<"Request failed: ", "timed out">>, PyNone, PyStr(<<"REQUEST_ERROR">>))),
     Raise([kind |-> "UnicodeDecodeError",
            message |-> <<"'utf-8' codec can't decode byte 0xff">>])}

\* ---- actions

ServiceIdle ==
    /\ spc = "idle" /\ sop = PyNone /\ locals = PyNone /\ slog = <<>> /\ sresult = NoResult

\* a single operation is called: it validates, then calls make_request
ServiceCall(op, id, data) ==
    /\ spc = "idle"
    /\ sop' = [op |-> op, id |-> id, data |-> data]
    /\ IF Validate(op, id, data).ok
       THEN /\ slog' = <<Call(op, id, data), ServiceRequest(op, id, data)>>
            /\ sresult' = NoResult
            /\ spc' = "wait"
       ELSE /\ slog' = <<Call(op, id, data)>>
            /\ sresult' = Raise(Validate(op, id, data).e)
            /\ spc' = "done"
    /\ UNCHANGED locals
    /\ UNCHANGED <<uvars, wvars, cvars>>

\* make_request returns or raises, and so does the operation
ServiceReturns(outcome) ==
    /\ spc = "wait" /\ "op" \in DOMAIN sop
    /\ slog' = Append(slog, Response(sop.op, outcome))
    /\ sresult' = outcome
    /\ spc' = "done"
    /\ UNCHANGED <<sop, locals>>
    /\ UNCHANGED <<uvars, wvars, cvars>>

\* the workflow goes on from `step` (an Advance): to its next request, to its
\* return, or into its except clause
Proceed(cfg, step, seen) ==
    /\ slog' = seen \o step.entries
    /\ locals' = step.l
    /\ CASE step.kind = "request" -> sresult' = NoResult /\ spc' = "wait"
         [] step.kind = "return" ->
                sresult' = Ok(WorkflowResult(cfg.workflow, step.l)) /\ spc' = "done"
         [] OTHER -> sresult' = Raise(Wrap(cfg.workflow, step.e)) /\ spc' = "done"

\* create_complete_payout or create_complete_collection is called
WorkflowCall(cfg) ==
    /\ spc = "idle"
    /\ sop' = cfg
    /\ LET main == DictGet(cfg.config, MainKey(cfg.workflow)) IN
       IF ~Truthy(main)
       THEN /\ sresult' = Raise(ValueError(<<MainKey(cfg.workflow), " is required">>))
            /\ slog' = <<>> /\ locals' = PyNone /\ spc' = "done"
       ELSE Proceed(cfg, Advance(cfg, [customer_id |-> DictGet(main, "customer_id"),
                                       fees |-> PyNone, vba_data |-> PyNone,
                                       final |-> PyNone, stage |-> 0], 1), <<>>)
    /\ UNCHANGED <<uvars, wvars, cvars>>

\* the make_request of the running stage returns or raises, and the workflow goes on
WorkflowStepReturns(outcome) ==
    /\ spc = "wait" /\ "workflow" \in DOMAIN sop
    /\ LET stage == Stages(sop.workflow)[locals.stage]
           seen == Append(slog, Response(stage, outcome))
           bound == IF outcome.ok THEN Bind(locals, stage, outcome.v) ELSE outcome
       IN IF bound.ok THEN Proceed(sop, Advance(sop, bound.v, locals.stage + 1), seen)
          ELSE Proceed(sop, [kind |-> "raise", entries |-> <<>>, l |-> locals,
                             e |-> bound.e], seen)
    /\ UNCHANGED sop
    /\ UNCHANGED <<uvars, wvars, cvars>>

ServiceNext ==
    \/ \E c \in ServiceInputs : ServiceCall(c.op, c.id, c.data)
    \/ \E outcome \in ServiceOutcomes : ServiceReturns(outcome)
    \/ \E cfg \in WorkflowInputs : WorkflowCall(cfg)
    \/ \E outcome \in ServiceOutcomes : WorkflowStepReturns(outcome)

\* ----------------------------------------------------------- specifications

Init == UploadIdle /\ WebhookIdle /\ ClientIdle /\ ServiceIdle

\* The services, the client and the workflows share no state; each is followed under
\* its own specification.
UploadSpec == Init /\ [][UploadNext]_vars
WebhookSpec == Init /\ [][WebhookNext]_vars
ClientSpec == Init /\ [][ClientNext]_vars
ConcurrentSpec == Init /\ [][ConcurrentNext]_vars
ServiceSpec == Init /\ [][ServiceNext]_vars

Next == UploadNext \/ WebhookNext \/ ClientNext \/ ConcurrentNext \/ ServiceNext
Spec == Init /\ [][Next]_vars

\* =================================================================== claims
\* ---- upload_file_complete, under UploadSpec

\* the requests of the log, and those of one step
Requests == {i \in 1..Len(log) : log[i].ev = "request"}
RequestsOf(step) == {i \in Requests : log[i].step = step}
LastEntry == log[Len(log)]

\* the arguments that break a precondition of upload_file_complete
Offending(cid, opts) ==
    (IF ~Truthy(cid) THEN {"customer_id"} ELSE {})
    \cup (IF ~Truthy(opts) THEN {"file_options"} ELSE {})
    \cup (IF opts.t # "dict" \/ ~Truthy(DictGet(opts, "file")) THEN {"file"} ELSE {})
    \cup (IF opts.t # "dict" \/ DictGet(opts, "file_category") \notin FileCategories
          THEN {"file_category"} ELSE {})

\* the argument a validation message names
FieldNamedBy(message) ==
    CASE message = <<"Customer ID is required">> -> "customer_id"
      [] message = <<"File options are required">> -> "file_options"
      [] message = <<"File is required">> -> "file"
      [] message = <<"file_category is required">> -> "file_category"
      [] message = <<"file_category must be one of: identity, proof_of_address, liveness_check">>
            -> "file_category"
      [] OTHER -> "none"

\* C1: a call whose customer_id is empty, whose file_options are empty or
\* absent, whose file is absent or empty, or whose file_category is absent or
\* not one of the three categories ends at once with a ValueError that names
\* one of the offending arguments, and no request has been issued.
C1_ValidationBeforeNetwork ==
    (calls > 0 /\ Offending(customer_id, file_options) # {}) =>
        /\ pc = "done"
        /\ log = <<>>
        /\ ~result.ok
        /\ result.e.kind = "ValueError"
        /\ FieldNamedBy(result.e.message) \in Offending(customer_id, file_options)

\* a call with a good customer, a good file and a category outside the three
\* has failed without a request
C1_Witness ==
    /\ pc = "done" /\ log = <<>>
    /\ Offending(customer_id, file_options) = {"file_category"}
    /\ DictGet(file_options, "file_category") = PyStr(<<"invalid">>)
    /\ result = Raise(ValueError(
          <<"file_category must be one of: identity, proof_of_address, liveness_check">>))

\* the place of a step in the sequence of upload_file_complete
StepRank(step) ==
    CASE step = "slot" -> 1 [] step = "download" -> 2 [] step = "put" -> 3
      [] step = "assoc" -> 4

\* C2: the requests of one call are issued in the order slot, download (when
\* the content is a remote URL), PUT, association, and each is issued only
\* after the response of every earlier one has been received.
C2_StepsStrictlyOrdered ==
    \A i \in Requests :
        /\ \A j \in Requests :
              j < i =>
                /\ StepRank(log[j].step) < StepRank(log[i].step)
                /\ \E k \in (j + 1)..(i - 1) :
                      log[k].ev = "response" /\ log[k].step = log[j].step
        /\ log[i].step # "slot" => RequestsOf("slot") # {}
        /\ (log[i].step = "put" /\ ContentBranch(DictGet(file_options, "file")) = "url")
              => RequestsOf("download") # {}
        /\ log[i].step = "assoc" => RequestsOf("put") # {}

\* a call that went through all four network steps, download included
C2_Witness ==
    /\ pc = "done" /\ result.ok
    /\ Len(log) = 8
    /\ <<log[1].step, log[3].step, log[5].step, log[7].step>>
          = <<"slot", "download", "put", "assoc">>

\* the exception the transport raised in a logged response, or None
TransportFailure(entry) ==
    IF entry.step \in {"slot", "assoc"}
    THEN IF entry.outcome.ok THEN PyNone ELSE entry.outcome.e
    ELSE IF entry.outcome.kind = "raise" THEN entry.outcome.e ELSE PyNone

\* C3: once validation has passed, a call that fails fails with a BlaaizError
\* whose message contains the message of the exception that reached the
\* except clause, and that of the exception the transport raised, if it did.
C3_OneUploadErrorKind ==
    (pc = "done" /\ log # <<>> /\ ~result.ok) =>
        /\ result.e.kind = "BlaaizError"
        /\ raised # PyNone
        /\ Contains(result.e.message, StrOf(raised))
        /\ Contains(result.e.message, raised.message)
        /\ TransportFailure(LastEntry) # PyNone =>
              Contains(result.e.message, TransportFailure(LastEntry).message)

\* a failure that is no BlaaizError (a slot response without file_id, a
\* content that does not decode) has reached the caller as a BlaaizError
C3_Witness ==
    /\ pc = "done" /\ log # <<>> /\ ~result.ok
    /\ raised # PyNone
    /\ raised.kind \in {"KeyError", "TypeError", "ValueError", "binascii.Error"}
    /\ result.e.kind = "BlaaizError"

\* C4: when the association request fails, the call fails with a BlaaizError
\* and returns nothing.
C4_AssociationFailureFailsCall ==
    (pc = "done" /\ log # <<>> /\ LastEntry.step = "assoc" /\ ~LastEntry.outcome.ok) =>
        /\ ~result.ok
        /\ result.e.kind = "BlaaizError"
        /\ Contains(result.e.message, LastEntry.outcome.e.message)

\* the association failed after a slot response with url and file id and a
\* PUT that was answered 200
C4_Witness ==
    /\ pc = "done" /\ Len(log) = 6 /\ ~result.ok
    /\ log[2].step = "slot" /\ log[2].outcome.ok
    /\ log[4].step = "put" /\ log[4].outcome.kind = "response" /\ log[4].outcome.status = 200
    /\ log[6].step = "assoc" /\ ~log[6].outcome.ok

\* C5: one call issues at most one slot request, at most one PUT and at most
\* one association request, whatever the transport answers.
C5_NoRetry ==
    /\ Cardinality(RequestsOf("slot")) <= 1
    /\ Cardinality(RequestsOf("put")) <= 1
    /\ Cardinality(RequestsOf("assoc")) <= 1

\* a call has ended in failure because the PUT failed, having issued the PUT once
C5_Witness ==
    /\ pc = "done" /\ ~result.ok
    /\ Cardinality(RequestsOf("put")) = 1
    /\ LastEntry.step = "put"
    /\ ~UploadToS3(LastEntry.outcome).ok

\* what the slot response of the running call carried
SlotData == log[2].outcome.v.data.d["data"].d

\* C6: a call that succeeds returns the association response with file_id
\* set to the file id of the slot response and presigned_url to its upload
\* URL, also when the association response has such keys of its own.
C6_ResultCarriesSlotIds ==
    (pc = "done" /\ log # <<>> /\ result.ok) =>
        /\ result.v["file_id"] = SlotData["file_id"]
        /\ result.v["presigned_url"] = SlotData["url"]
        /\ \A k \in DOMAIN LastEntry.outcome.v :
              /\ k \in DOMAIN result.v
              /\ k \notin {"file_id", "presigned_url"} => result.v[k] = LastEntry.outcome.v[k]

\* a call succeeded whose association response had a file_id of its own
C6_Witness ==
    /\ pc = "done" /\ log # <<>> /\ result.ok
    /\ "file_id" \in DOMAIN LastEntry.outcome.v
    /\ LastEntry.outcome.v["file_id"] # SlotData["file_id"]
    /\ result.v["file_id"] = SlotFileId

\* ---- verify_signature and construct_event, under WebhookSpec

\* what verify_signature answers for the arguments of the running call
Answer == VerifySignature(payload_in, signature, secret)
Steps == {wtrace[i] : i \in 1..Len(wtrace)}
Returned == wpc = "done" /\ wresult.ok

\* C7: construct_event parses, stamps and returns an event only after
\* verify_signature answered true; when it answers false the call fails with
\* ValueError("Invalid webhook signature") and nothing was parsed.
C7_EventOnlyAfterVerification ==
    wop = "construct_event" =>
        /\ ("parse" \in Steps \/ "stamp" \in Steps \/ event # PyNone \/ Returned) =>
              /\ wtrace[1] = "verify"
              /\ Answer = Ok(PyBool(TRUE))
        /\ (wpc = "done" /\ Answer = Ok(PyBool(FALSE))) =>
              /\ wresult = Raise(ValueError(<<"Invalid webhook signature">>))
              /\ wtrace = <<"verify">>
              /\ event = PyNone

\* construct_event has failed on a text payload with a wrong signature,
\* without parsing it
C7_Witness ==
    /\ wop = "construct_event" /\ wpc = "done"
    /\ payload_in = BasePayload
    /\ Answer = Ok(PyBool(FALSE))
    /\ wresult = Raise(ValueError(<<"Invalid webhook signature">>))
    /\ "parse" \notin Steps

\* the object the payload of the running call stands for
OriginalObject == IF payload_in.t = "str" THEN JsonLoads(payload_in.s).v ELSE payload_in

\* C8: the event construct_event returns has every key of the original
\* payload with its value, except that verified is True and timestamp is a
\* reading of the clock, whatever the payload held under these two keys.
C8_EventKeepsPayloadAndStamps ==
    (wop = "construct_event" /\ Returned) =>
        /\ wresult.v.t = "dict"
        /\ \A k \in DOMAIN OriginalObject.d :
              /\ k \in DOMAIN wresult.v.d
              /\ k \notin {VerifiedKey, TimestampKey} => wresult.v.d[k] = OriginalObject.d[k]
        /\ wresult.v.d[VerifiedKey] = PyBool(TRUE)
        /\ \E t \in 0..clock : wresult.v.d[TimestampKey] = CurrentTimestamp(t)

\* an event was returned for a payload that held verified and timestamp keys
\* of its own, with other values
C8_Witness ==
    /\ wop = "construct_event" /\ Returned
    /\ {VerifiedKey, TimestampKey} \subseteq DOMAIN OriginalObject.d
    /\ OriginalObject.d[VerifiedKey] # PyBool(TRUE)
    /\ OriginalObject.d[TimestampKey] = PyStr(<<"x">>)
    /\ wresult.v.d[VerifiedKey] = PyBool(TRUE)

\* C9: with an empty or absent payload, signature or secret, the call fails
\* with a ValueError and answers no boolean, whatever the other two are.
C9_EmptyArgumentsRejected ==
    (wpc = "done" /\ (~Truthy(payload_in) \/ ~Truthy(signature) \/ ~Truthy(secret))) =>
        /\ ~wresult.ok
        /\ wresult.e.kind = "ValueError"

\* verify_signature has rejected an empty secret that came with a payload and
\* a signature that are both well formed
C9_Witness ==
    /\ wop = "verify_signature" /\ wpc = "done"
    /\ payload_in = BasePayload
    /\ signature = PyStr(Sign(BasePayload, BaseSecret))
    /\ secret = PyStr(<<>>)
    /\ wresult = Raise(ValueError(<<"Webhook secret is required for signature verification">>))

\* two texts of one length that differ in exactly one character
DiffersInOne(a, b) ==
    Len(a) = Len(b) /\ Cardinality({i \in 1..Len(a) : a[i] # b[i]}) = 1

\* the running call is a verify_signature call with three non-empty arguments
\* that has ended
VerifyEnded ==
    /\ wop = "verify_signature" /\ wpc = "done"
    /\ Truthy(payload_in) /\ Truthy(signature) /\ Truthy(secret)

\* C10: verify_signature answers true for the signature the sender computes
\* from the payload and the secret, and false when one character of the
\* payload, of the signature or of the secret has been replaced.
C10_SignatureRoundTrip ==
    VerifyEnded =>
        /\ signature.s = Sign(payload_in, secret) => wresult = Ok(PyBool(TRUE))
        /\ DiffersInOne(signature.s, Sign(payload_in, secret))
              => wresult = Ok(PyBool(FALSE))
        /\ (payload_in.t = "str" /\ \E q \in PayloadTexts :
                /\ DiffersInOne(payload_in.s, q)
                /\ signature.s = Sign(PyStr(q), secret))
              => wresult = Ok(PyBool(FALSE))
        /\ (\E k \in SecretTexts :
                /\ DiffersInOne(secret.s, k)
                /\ signature.s = Sign(payload_in, PyStr(k)))
              => wresult = Ok(PyBool(FALSE))

\* What does hold of C10's cases: the true answer, and for a replaced
\* character never the answer true; the answer is false when the signature is
\* all ASCII.
C10_NeverTrueAfterReplacement ==
    VerifyEnded =>
        /\ signature.s = Sign(payload_in, secret) => wresult = Ok(PyBool(TRUE))
        /\ (\/ DiffersInOne(signature.s, Sign(payload_in, secret))
            \/ (payload_in.t = "str" /\ \E q \in PayloadTexts :
                  DiffersInOne(payload_in.s, q) /\ signature.s = Sign(PyStr(q), secret))
            \/ \E k \in SecretTexts :
                  DiffersInOne(secret.s, k) /\ signature.s = Sign(payload_in, PyStr(k)))
              => /\ wresult # Ok(PyBool(TRUE))
                 /\ IsAscii(signature.s) => wresult = Ok(PyBool(FALSE))

\* ---- verify_signature and construct_event, further properties

\* C11: for the digest d the sender computes, verify_signature answers true
\* for the signatures d and "sha256=" + d and false for every other signature,
\* also for one that holds the marker twice or elsewhere than in front.  (A
\* signature with a character outside ASCII is the case of C10.)
C11_OnlyLeadingPrefixStripped ==
    (VerifyEnded /\ IsAscii(signature.s)) =>
        IF signature.s \in {Sign(payload_in, secret),
                            Sha256Prefix \o Sign(payload_in, secret)}
        THEN wresult = Ok(PyBool(TRUE))
        ELSE wresult = Ok(PyBool(FALSE))

\* C12: a webhook call that fails fails with a ValueError, whatever made it
\* fail, and no transport request was issued; a correctly signed text that is
\* no JSON fails with "Invalid webhook payload: unable to parse JSON".  (A
\* signature with a character outside ASCII is the case of C10.)
C12_WebhookFailuresAreValueErrors ==
    (wpc = "done" /\ (signature.t = "str" => IsAscii(signature.s))) =>
        /\ log = <<>>
        /\ ~wresult.ok => wresult.e.kind = "ValueError"
        /\ (wop = "construct_event" /\ Answer = Ok(PyBool(TRUE)) /\ payload_in.t = "str"
              /\ ~JsonLoads(payload_in.s).ok)
              => wresult = Raise(ValueError(<<"Invalid webhook payload: unable to parse JSON">>))

\* ---- upload_file_complete and the resolution of the content, further properties

\* the arguments of the running call passed the checks before the try block
Validated == calls > 0 /\ Offending(customer_id, file_options) = {}
Content == DictGet(file_options, "file")
ExplicitContentType == DictGet(file_options, "content_type")
ExplicitFilename == DictGet(file_options, "filename")
\* _process_file_content has returned
Resolved == file_buffer # PyNone

\* the slot request was answered with an upload URL and a file id
SlotGood ==
    /\ Len(log) >= 2
    /\ log[2].outcome.ok
    /\ log[2].outcome.v.data.t = "dict"
    /\ "data" \in DOMAIN log[2].outcome.v.data.d
    /\ log[2].outcome.v.data.d["data"].t = "dict"
    /\ {"url", "file_id"} \subseteq DOMAIN log[2].outcome.v.data.d["data"].d

\* the running call has ended because make_request raised
MakeRequestFailed ==
    /\ pc = "done" /\ log # <<>>
    /\ LastEntry.step \in {"slot", "assoc"}
    /\ ~LastEntry.outcome.ok
FailedWith == LastEntry.outcome.e

UnrecognizedShape(content) == Truthy(content) /\ content.t \notin {"bytes", "str"}
DataUrlWithoutComma(content) ==
    /\ content.t = "str"
    /\ StartsWith(content.s, DataScheme)
    /\ ~Contains(content.s, <<",">>)
BadShape == Validated /\ (UnrecognizedShape(Content) \/ DataUrlWithoutComma(Content))

\* C14, as stated: a call whose content has an unrecognized shape or is a
\* data URL without payload fails before any request is issued.
C14_ShapeFailsBeforeAnyRequest ==
    BadShape => (Requests = {} /\ pc = "done" /\ ~result.ok)

\* C14, amended: such a call issues the slot request and no other request;
\* once the slot request is answered the call fails with a BlaaizError, which
\* carries the message of the shape error when the answer held an upload URL
\* and a file id, and the failure of the slot step otherwise.
C14_ShapeFailsAfterSlotRequest ==
    BadShape =>
        /\ log[1] = SlotRequest(customer_id, file_category)
        /\ Requests = {1}
        /\ Len(log) <= 2
        /\ Len(log) = 2 =>
              /\ pc = "done"
              /\ ~result.ok
              /\ result.e.kind = "BlaaizError"
              /\ SlotGood =>
                    /\ raised \in {ValueError(<<"File content must be bytes or string">>),
                                   ValueError(<<"Invalid data URL format">>)}
                    /\ Contains(result.e.message, raised.message)
              /\ ~SlotGood => raised.kind \in {"BlaaizError", "KeyError", "TypeError"}

\* a call with a number for a content has failed on its shape, after the slot
\* request was answered with an upload URL and a file id
C14_Witness ==
    /\ BadShape /\ Content = PyInt(5)
    /\ pc = "done" /\ SlotGood
    /\ Requests = {1}
    /\ raised = ValueError(<<"File content must be bytes or string">>)

\* the Content-Disposition header of a file name
AttachmentOf(name) ==
    PyStr(<<"a","t","t","a","c","h","m","e","n","t",";"," ",
            "f","i","l","e","n","a","m","e","=","\"">> \o name.s \o <<"\"">>)

\* C15: whatever the shape of the content, a content type (a filename) the
\* caller supplied is the one of the resolved content and of the headers of
\* the PUT.  (A download answered with a status outside 2xx is the case of
\* C20.)
C15_ExplicitValuesWin ==
    (Validated /\ Resolved
        /\ (RequestsOf("download") # {} => log[4].outcome.status \in 200..299)) =>
        /\ ExplicitContentType # PyNone =>
              /\ file_buffer.content_type = ExplicitContentType
              /\ \A i \in RequestsOf("put") :
                    /\ "Content-Type" \in DOMAIN log[i].req.headers
                    /\ log[i].req.headers["Content-Type"] = ExplicitContentType
        /\ ExplicitFilename # PyNone =>
              /\ file_buffer.filename = ExplicitFilename
              /\ \A i \in RequestsOf("put") :
                    /\ "Content-Disposition" \in DOMAIN log[i].req.headers
                    /\ log[i].req.headers["Content-Disposition"]
                          = AttachmentOf(ExplicitFilename)

\* C16: a content given as bytes resolves, without a download, to these bytes
\* with the filename and content type the caller supplied or None, and the PUT
\* carries these bytes.
C16_RawBytesPassThrough ==
    (Validated /\ Content.t = "bytes") =>
        /\ RequestsOf("download") = {}
        /\ SlotGood => Resolved
        /\ Resolved =>
              /\ file_buffer.data = Content
              /\ file_buffer.filename = ExplicitFilename
              /\ file_buffer.content_type = ExplicitContentType
              /\ \A i \in RequestsOf("put") : log[i].req.data = Content

\* three bytes given with a content type and without a filename were resolved
\* and put
C16_Witness ==
    /\ Validated /\ Resolved
    /\ Content = PyBytes(<<0, 16, 255>>)
    /\ ExplicitFilename = PyNone /\ ExplicitContentType = PyStr(TextPlain)
    /\ file_buffer.data = PyBytes(<<0, 16, 255>>)
    /\ RequestsOf("put") # {}

\* C17: the text base64(B) begins with neither "data:" nor an HTTP scheme and
\* resolves, without a download, to the bytes B.
C17_Base64RoundTrip ==
    \A b \in ByteSamples :
        (Validated /\ Content = PyStr(B64Encode(b))) =>
            /\ ContentBranch(Content) = "base64"
            /\ RequestsOf("download") = {}
            /\ SlotGood => Resolved
            /\ Resolved => file_buffer.data = PyBytes(b)

\* the base64 text of one byte, which ends in two padding characters, was
\* resolved to that byte
C17_Witness ==
    /\ Validated /\ Resolved
    /\ Content = PyStr(<<"/", "w", "=", "=">>)
    /\ file_buffer.data = PyBytes(<<255>>)

\* C18: with no content type supplied, the text "data:" + M + ";base64," +
\* base64(B) resolves to the bytes B with the content type M.
C18_DataUrlYieldsBytesAndType ==
    \A m \in MimeSamples \cup {TextPlain}, b \in ByteSamples \cup {<<>>} :
        (Validated /\ Content = PyStr(DataUrl(m, b)) /\ ~Truthy(ExplicitContentType)) =>
            /\ SlotGood => Resolved
            /\ Resolved =>
                  /\ file_buffer.data = PyBytes(b)
                  /\ file_buffer.content_type = PyStr(m)

\* a data URL of type application/pdf given without a content type was resolved
C18_Witness ==
    /\ Validated /\ Resolved
    /\ Content = PyStr(DataUrl(ApplicationPdf, SampleBytes))
    /\ ExplicitContentType = PyNone
    /\ file_buffer.data = PyBytes(SampleBytes)
    /\ file_buffer.content_type = PyStr(ApplicationPdf)

\* C19: once the slot request is answered with an upload URL and a file id, a
\* data URL is rejected as "Invalid data URL format" exactly when it holds no
\* comma.
C19_DataUrlRejectedOnlyWithoutComma ==
    (Validated /\ ContentBranch(Content) = "data_url" /\ SlotGood) =>
        (raised = ValueError(<<"Invalid data URL format">>)
            <=> ~Contains(Content.s, <<",">>))

\* the GET of the remote file was answered
DownloadAnswered == Len(log) >= 4 /\ log[4].ev = "response" /\ log[4].step = "download"

\* C20: the content of a remote URL resolves to the body of the response when
\* the GET is answered with a 2xx status; with any other status, and when the
\* GET raises, the call fails with a download error and issues no PUT.
C20_DownloadFailsOutside2xx ==
    DownloadAnswered =>
        IF log[4].outcome.kind = "response" /\ log[4].outcome.status \in 200..299
        THEN /\ Resolved
             /\ file_buffer.data = PyBytes(log[4].outcome.body)
        ELSE /\ ~Resolved
             /\ RequestsOf("put") = {}
             /\ pc = "done"
             /\ ~result.ok
             /\ raised.kind = "BlaaizError"
             /\ StartsWith(raised.message, <<"File download failed: ">>)

\* C21: every PUT to the upload URL carries the resolved bytes and a
\* Content-Length header that is their length, a Content-Type header exactly
\* when the resolved content has a content type, which it then is, a
\* Content-Disposition header exactly when it has a filename, of the form
\* attachment; filename="<name>", and no other header.
C21_PutHeaders ==
    \A i \in RequestsOf("put") :
        /\ Resolved
        /\ log[i].req.data = file_buffer.data
        /\ DOMAIN log[i].req.headers
              \subseteq {"Content-Length", "Content-Type", "Content-Disposition"}
        /\ "Content-Length" \in DOMAIN log[i].req.headers
        /\ log[i].req.headers["Content-Length"]
              = PyStr(<<ToString(Len(file_buffer.data.b))>>)
        /\ "Content-Type" \in DOMAIN log[i].req.headers <=> Truthy(file_buffer.content_type)
        /\ Truthy(file_buffer.content_type) =>
              log[i].req.headers["Content-Type"] = file_buffer.content_type
        /\ "Content-Disposition" \in DOMAIN log[i].req.headers
              <=> Truthy(file_buffer.filename)
        /\ Truthy(file_buffer.filename) =>
              log[i].req.headers["Content-Disposition"] = AttachmentOf(file_buffer.filename)

\* a PUT of three bytes was issued with nothing but a Content-Length header,
\* the content having neither a content type nor a filename
C21_Witness ==
    /\ Resolved
    /\ file_buffer.content_type = PyNone /\ file_buffer.filename = PyNone
    /\ \E i \in RequestsOf("put") :
          /\ DOMAIN log[i].req.headers = {"Content-Length"}
          /\ log[i].req.headers["Content-Length"] = PyStr(<<"3">>)

\* the responses of the PUT that came before position i of the log
PutResponsesBefore(i) ==
    {j \in 1..(i - 1) : log[j].ev = "response" /\ log[j].step = "put"}

\* C29: a PUT is issued only after the slot request was answered with an
\* upload URL and a file id and the content was resolved; the association
\* request is issued only after the PUT was answered with a 2xx status, and it
\* names the file id of the slot response; a call succeeds only after both.
C29_FailedStepStopsPipeline ==
    /\ RequestsOf("put") # {} =>
          /\ SlotGood
          /\ Resolved
          /\ ContentBranch(Content) = "url" =>
                (DownloadAnswered /\ log[4].outcome.kind = "response")
    /\ \A i \in RequestsOf("assoc") :
          /\ RequestsOf("put") # {}
          /\ PutResponsesBefore(i) # {}
          /\ \A j \in PutResponsesBefore(i) :
                /\ log[j].outcome.kind = "response"
                /\ log[j].outcome.status \in 200..299
          /\ log[i].req.data.id_file = SlotData["file_id"]
    /\ (pc = "done" /\ log # <<>> /\ result.ok) => RequestsOf("assoc") # {}

\* a call has ended after its PUT was answered with status 199, without an
\* association request
C29_Witness ==
    /\ pc = "done" /\ ~result.ok
    /\ log # <<>>
    /\ LastEntry.step = "put"
    /\ LastEntry.outcome.kind = "response"
    /\ LastEntry.outcome.status = 199
    /\ RequestsOf("assoc") = {}

\* ---- construct_event and the caller's payload

\* C30: after construct_event has returned an event for a payload given as a
\* structured object, that object is as it was when the call was made, and
\* verify_signature answers for it as it did inside the call.
C30_PayloadLeftUnchanged ==
    (wop = "construct_event" /\ Returned /\ payload_in.t = "dict") =>
        /\ payload = payload_in
        /\ VerifySignature(payload, signature, secret) = Ok(PyBool(TRUE))

\* ---- BlaaizAPIClient.make_request, under ConcurrentSpec and ClientSpec

\* the headers caller t's request must carry: the construction's defaults, updated
\* with the headers t passed
OwnHeaders(t) ==
    DictMerge(Construction.default_headers,
              IF Truthy(cargs[t].headers) THEN cargs[t].headers.d ELSE <<>>)

\* C22: whatever the interleaving of the callers' make_request calls on the shared
\* client, extra headers included, the client's api_key, base_url, timeout and
\* default_headers stay what the construction set, and every request carries the
\* defaults and its own caller's headers only.
C22_NoInstanceStateMutated ==
    /\ client = Construction
    /\ \A t \in Callers :
        cpc[t] \in {"waiting", "done"} =>
            /\ sent[t].headers = OwnHeaders(t)
            /\ sent[t].url = Construction.base_url.s \o cargs[t].endpoint
            /\ sent[t].timeout = Construction.timeout

\* two callers passed different extra headers, and both requests went out
C22_Witness ==
    /\ cpc[1] = "done" /\ cpc[2] = "waiting"
    /\ Truthy(cargs[1].headers) /\ Truthy(cargs[2].headers)
    /\ cargs[1].headers # cargs[2].headers
    /\ sent[1].headers # sent[2].headers
    /\ client = Construction

\* the error body is a JSON object
StructuredBody(body) ==
    /\ Utf8Decode(body).ok
    /\ JsonLoads(body).ok
    /\ JsonLoads(body).v.t = "dict"

MessageKey == <<"m","e","s","s","a","g","e">>
CodeKey == <<"c","o","d","e">>

\* C24: when urlopen raises an HTTPError, make_request fails with a BlaaizError that
\* carries the HTTP status; with a JSON object for body the message and the code are
\* the body's fields, with any other body the code is HTTP_ERROR and the message is
\* "HTTP <status> error". When urlopen raises a URLError without a response the
\* BlaaizError has the code REQUEST_ERROR and no status.
C24_HttpFailuresCarryStatus ==
    \A t \in Callers :
        cpc[t] = "done" =>
            /\ transport[t].kind = "http_error" =>
                /\ ~cresult[t].ok
                /\ cresult[t].e.kind = "BlaaizError"
                /\ cresult[t].e.status = PyInt(transport[t].code)
                /\ IF StructuredBody(transport[t].body)
                   THEN LET body == JsonLoads(transport[t].body).v IN
                        /\ MessageKey \in DOMAIN body.d =>
                              cresult[t].e.message = body.d[MessageKey].s
                        /\ CodeKey \in DOMAIN body.d => cresult[t].e.code = body.d[CodeKey]
                   ELSE /\ cresult[t].e.code = PyStr(<<"HTTP_ERROR">>)
                        /\ cresult[t].e.message =
                              <<"HTTP ", ToString(transport[t].code), " error">>
            /\ (transport[t].kind = "raise" /\ transport[t].e.kind = "URLError") =>
                /\ ~cresult[t].ok
                /\ cresult[t].e.kind = "BlaaizError"
                /\ cresult[t].e.code = PyStr(<<"REQUEST_ERROR">>)
                /\ cresult[t].e.status = PyNone

\* C28: whatever urlopen does, make_request either returns {data, status, headers}
\* or fails with a BlaaizError; a response whose body is text but not JSON is
\* returned with the text as data.
C28_TwoOutcomes ==
    \A t \in Callers :
        cpc[t] = "done" =>
            /\ \/ cresult[t].ok /\ DOMAIN cresult[t].v = {"data", "status", "headers"}
               \/ ~cresult[t].ok /\ cresult[t].e.kind = "BlaaizError"
            /\ (/\ transport[t].kind = "response"
                /\ Utf8Decode(transport[t].body).ok
                /\ ~JsonLoads(transport[t].body).ok) =>
                    /\ cresult[t].ok
                    /\ cresult[t].v.data = PyStr(transport[t].body)

\* ---- the services and the workflows, under ServiceSpec

SingleOperation == sop # PyNone /\ "op" \in DOMAIN sop
Workflow == sop # PyNone /\ "workflow" \in DOMAIN sop
ServiceRequests == {i \in DOMAIN slog : slog[i].ev = "request"}
CallsOf(op) == {i \in DOMAIN slog : slog[i].ev = "call" /\ slog[i].step = op}

\* what the running single operation was called without: the label of its id, or
\* the required fields that are missing or empty
Lacking ==
    IF Operations[sop.op].label # ""
    THEN (IF Truthy(sop.id) THEN {} ELSE {Operations[sop.op].label})
    ELSE {f \in {r.field : r \in {Required(sop.op, sop.data,
                                           Len(Operations[sop.op].when))[i] :
                          i \in 1..Len(Required(sop.op, sop.data,
                                                Len(Operations[sop.op].when)))}} :
             Missing(sop.data, f)}

\* C23: a single operation called without a required field or id, or with an empty
\* one, fails with a ValueError that names one such field and makes no request;
\* called with them all it makes exactly one request, and ends as that request
\* ended, with the same response or the same exception.
C23_ValidateThenOneRequest ==
    (SingleOperation /\ spc # "idle") =>
        IF Lacking # {}
        THEN /\ spc = "done"
             /\ ~sresult.ok
             /\ sresult.e.kind = "ValueError"
             /\ sresult.e.message[1] \in Lacking
             /\ ServiceRequests = {}
        ELSE /\ Cardinality(ServiceRequests) = 1
             /\ slog[2] = Request(sop.op,
                    [method |-> Operations[sop.op].method,
                     endpoint |-> IF sop.id = PyNone THEN <<Operations[sop.op].path>>
                                  ELSE <<Operations[sop.op].path>> \o sop.id.s,
                     data |-> sop.data])
             /\ spc = "done" =>
                    /\ Len(slog) = 3
                    /\ slog[3].ev = "response"
                    /\ sresult = slog[3].outcome

\* payouts.initiate was called with a from_amount of 0 and ended without a request
C23_Witness ==
    /\ SingleOperation /\ spc = "done"
    /\ sop.op = "payouts.initiate"
    /\ "from_amount" \in DOMAIN sop.data.d
    /\ sop.data.d["from_amount"] = PyInt(0)
    /\ ~sresult.ok
    /\ ServiceRequests = {}

\* the arguments of the running workflow
MainData == DictGet(sop.config, MainKey(sop.workflow))
CustomerData == DictGet(sop.config, "customer_data")
GivenId == DictGet(MainData, "customer_id")
Initiates == CallsOf(Stages(sop.workflow)[3])

\* the id in the response to the workflow's customers.create request
CreatedId == slog[3].outcome.v.data.d["data"].d["id"]

\* C25: a workflow calls customers.create exactly when its payout or collection data
\* has no customer_id and customer_data is given (an empty value counting as none),
\* and then before any other call; the customer_id in the final initiate call and in
\* the result is the given id if there is one, and else the created customer's id.
C25_CustomerCreatedWhenNeeded ==
    (Workflow /\ Truthy(MainData)) =>
        /\ CallsOf("customers.create") # {} <=> (~Truthy(GivenId) /\ Truthy(CustomerData))
        /\ CallsOf("customers.create") \subseteq {1}
        /\ \A i \in Initiates :
            /\ Truthy(GivenId) => slog[i].data.d["customer_id"] = GivenId
            /\ CallsOf("customers.create") # {} => slog[i].data.d["customer_id"] = CreatedId
        /\ sresult # NoResult /\ sresult.ok =>
            /\ Truthy(GivenId) => sresult.v.customer_id = GivenId
            /\ CallsOf("customers.create") # {} => sresult.v.customer_id = CreatedId

\* a payout went through for a customer created on the way
C25_Witness ==
    /\ Workflow /\ sop.workflow = "create_complete_payout"
    /\ spc = "done" /\ sresult.ok
    /\ CallsOf("customers.create") = {1}
    /\ Initiates # {}
    /\ sresult.v.customer_id = PyStr(<<"c9">>)

CreateVba == Truthy(DictGet(sop.config, "create_vba"))

\* C26: create_complete_collection calls virtual_bank_accounts.create only when
\* create_vba is true, after the customer creation if there is one and before
\* collections.initiate, and a run that gets to collections.initiate has called it
\* if create_vba is true; with create_vba false or absent virtual_account is None in
\* the result. The account is named by customer_data's first and last name when
\* customer_data is given, and "Customer Account" when not.
C26_VirtualAccountWhenAsked ==
    (Workflow /\ sop.workflow = "create_complete_collection" /\ Truthy(MainData)) =>
        /\ \A i \in CallsOf("virtual_bank_accounts.create") :
            /\ CreateVba
            /\ \A j \in CallsOf("customers.create") : j < i
            /\ \A j \in Initiates : i < j
            /\ IF Truthy(CustomerData)
               THEN /\ {"first_name", "last_name"} \subseteq DOMAIN CustomerData.d
                    /\ slog[i].data.d["account_name"] =
                          PyStr(CustomerData.d["first_name"].s \o <<" ">> \o
                                CustomerData.d["last_name"].s)
               ELSE slog[i].data.d["account_name"] = PyStr(<<"Customer Account">>)
        /\ Cardinality(CallsOf("virtual_bank_accounts.create")) <= 1
        /\ Initiates # {} => (CallsOf("virtual_bank_accounts.create") # {} <=> CreateVba)
        /\ (sresult # NoResult /\ sresult.ok /\ ~CreateVba) =>
              sresult.v.virtual_account = PyNone

\* a collection went through with a customer and a virtual account created on the way
C26_Witness ==
    /\ Workflow /\ sop.workflow = "create_complete_collection"
    /\ spc = "done" /\ sresult.ok
    /\ CallsOf("customers.create") # {}
    /\ CallsOf("virtual_bank_accounts.create") # {}
    /\ sresult.v.virtual_account # PyNone

\* the entry is a step that failed: a request that make_request answered with an
\* exception, or a call that made no request
FailedAt(i) ==
    \/ slog[i].ev = "response" /\ ~slog[i].outcome.ok
    \/ slog[i].ev = "call" /\ (i = Len(slog) \/ slog[i + 1].ev # "request")

WorkflowPrefix ==
    IF sop.workflow = "create_complete_payout" THEN "Complete payout failed: "
    ELSE "Complete collection failed: "

\* C27: a workflow called without its payout_data or collection_data fails with a
\* ValueError before any call of a service. Any later failure ends it with a
\* BlaaizError whose message starts with "Complete payout failed" or "Complete
\* collection failed", with the status and code of the BlaaizError that caused it
\* when one did; a failed step is the last step of the workflow.
C27_WorkflowFailures ==
    Workflow =>
        /\ ~Truthy(MainData) =>
            /\ spc = "done" /\ slog = <<>>
            /\ ~sresult.ok /\ sresult.e.kind = "ValueError"
            /\ sresult.e.message[1] = MainKey(sop.workflow)
        /\ (Truthy(MainData) /\ spc = "done" /\ ~sresult.ok) =>
            /\ sresult.e.kind = "BlaaizError"
            /\ sresult.e.message[1] = WorkflowPrefix
            /\ (slog # <<>> /\ slog[Len(slog)].ev = "response"
                    /\ ~slog[Len(slog)].outcome.ok
                    /\ slog[Len(slog)].outcome.e.kind = "BlaaizError") =>
                  /\ sresult.e.status = slog[Len(slog)].outcome.e.status
                  /\ sresult.e.code = slog[Len(slog)].outcome.e.code
                  /\ sresult.e.message =
                        <<WorkflowPrefix>> \o slog[Len(slog)].outcome.e.message
        /\ \A i \in DOMAIN slog : FailedAt(i) =>
            /\ i = Len(slog)
            /\ spc = "done" /\ ~sresult.ok
        /\ (spc = "done" /\ sresult.ok) => Initiates # {}

\* a payout stopped at the fee breakdown, which the API refused with a 404
C27_Witness ==
    /\ Workflow /\ sop.workflow = "create_complete_payout"
    /\ spc = "done" /\ ~sresult.ok
    /\ slog # <<>>
    /\ slog[Len(slog)] = Response("fees.get_breakdown",
            Raise(BlaaizError(<<"Not found">>, PyInt(404), PyStr(<<"NOT_FOUND">>))))
    /\ sresult.e.status = PyInt(404)
    /\ Initiates = {}


====
